---- MODULE Spec2Model ----
(***************************************************************************)
(* State-machine model of the Qubes devices tray widget                    *)
(* (qui/tray/devices.py): the device/VM registry kept by DevicesTray, its  *)
(* event handlers, the two pending-notification buffers with their GLib    *)
(* timeouts, and the attach/detach toggle of DomainMenu.                   *)
(***************************************************************************)
EXTENDS Integers, Sequences, FiniteSets, TLC

(***************************************************************************)
(* Bounds of the model.                                                    *)
(***************************************************************************)
\* Clock ticks in one GLib.timeout_add(5000, ...) interval: a tick stands
\* for 5000 / WindowTicks milliseconds.
WindowTicks == 2

(***************************************************************************)
(* Program constants.                                                      *)
(***************************************************************************)
DEV_TYPES == <<"block", "usb", "mic">>

DevTypeSet == {DEV_TYPES[i] : i \in DOMAIN DEV_TYPES}

(***************************************************************************)
(* The administration directory (qubesadmin), the program's environment.   *)
(* Its answers are inputs of the actions; only the universe of names is    *)
(* fixed here.                                                             *)
(***************************************************************************)
\* qapp.domains, in its iteration order (sorted by name).
AllDomains == <<"dom0", "sys-usb", "work">>

DomainSet == {AllDomains[i] : i \in DOMAIN AllDomains}

\* vm.klass
Klass(d) == IF d = "dom0" THEN "AdminVM" ELSE "AppVM"

\* The exceptions an administration query raises, and the qubesadmin.exc
\* hierarchy the except clauses rely on:
\*   QubesException > QubesDaemonAccessError > QubesPropertyAccessError,
\*   QubesException > QubesVMNotFoundError (the VM disappeared mid-query).
ErrKinds == {"QubesPropertyAccessError", "QubesDaemonAccessError",
             "QubesVMNotFoundError"}

IsInstance(exc, cls) ==
    CASE cls = "Exception" -> TRUE
      [] cls = "QubesException" -> exc \in ErrKinds \cup {"QubesException"}
      [] cls = "QubesDaemonAccessError" ->
            exc \in {"QubesDaemonAccessError", "QubesPropertyAccessError"}
      [] cls = "QubesPropertyAccessError" -> exc = "QubesPropertyAccessError"
      [] OTHER -> FALSE

\* A query's outcome: a value, or an exception of one of the kinds.
Ok(v) == [ok |-> TRUE, val |-> v]

Raise(e) == [exc |-> e, ok |-> FALSE]

\* The qubesadmin DeviceInfo objects the directory can show.  descriptions
\* are strings, kept as their code points: "W", "KB", "M", "K".
UsbDev == [backend_domain |-> "sys-usb", ident |-> "2-1", devclass |-> "usb",
           description |-> <<87>>]

BlockDev == [backend_domain |-> "sys-usb", ident |-> "sda",
             devclass |-> "block", description |-> <<75, 66>>]

MicDev == [backend_domain |-> "dom0", ident |-> "mic", devclass |-> "mic",
           description |-> <<77>>]

\* A device of a class outside DEV_TYPES; it only shows up in events.
PciDev == [backend_domain |-> "dom0", ident |-> "00_1f.2",
           devclass |-> "pci", description |-> <<75>>]

Universe == {UsbDev, BlockDev, MicDev}

\* str(device) of a qubesadmin DeviceInfo: "backend:ident".
Str(dev) == dev.backend_domain \o ":" \o dev.ident

(***************************************************************************)
(* Device.__init__: the record the widget keeps for a device.  vm_icon is  *)
(* presentation only and left out.                                         *)
(***************************************************************************)
Device(dev) ==
    [dev_name |-> Str(dev),
     ident |-> dev.ident,
     description |-> dev.description,
     devclass |-> dev.devclass,
     attachments |-> {},
     backend_domain |-> dev.backend_domain]

(***************************************************************************)
(* self.devices is a dict: a sequence of Device records in insertion       *)
(* order, each key (dev_name) at most once.                                *)
(***************************************************************************)
Range(s) == {s[i] : i \in DOMAIN s}

Keys(devs) == {devs[i].dev_name : i \in DOMAIN devs}

IndexOf(devs, k) == CHOOSE i \in DOMAIN devs : devs[i].dev_name = k

GetItem(devs, k) == devs[IndexOf(devs, k)]

\* devs[k] = rec: an existing key keeps its place, a new one goes last.
SetItem(devs, k, rec) ==
    IF k \in Keys(devs)
    THEN [devs EXCEPT ![IndexOf(devs, k)] = rec]
    ELSE Append(devs, rec)

\* del devs[k]
DelItem(devs, k) ==
    LET i == IndexOf(devs, k)
    IN  SubSeq(devs, 1, i - 1) \o SubSeq(devs, i + 1, Len(devs))

\* devs[k].attachments.add(name)
AttachmentsAdd(devs, k, name) ==
    [devs EXCEPT ![IndexOf(devs, k)].attachments = @ \cup {name}]

\* devs[k].attachments.discard(name)
AttachmentsDiscard(devs, k, name) ==
    [devs EXCEPT ![IndexOf(devs, k)].attachments = @ \ {name}]

(***************************************************************************)
(* The state.                                                              *)
(***************************************************************************)
VARIABLES
    phase,          \* "new" -> "vms" -> "run": how far __init__ has got;
                    \* "exit" once main() has given up
    vms,            \* self.vms: the tracked VMs, by name
    devices,        \* self.devices
    devs_added,     \* self.devs_added: vm -> list of devices
    devs_removed,   \* self.devs_removed
    held,           \* which Device object each buffered entry is, per
                    \* <<direction, key>>: "registry", the very object
                    \* self.devices holds under the key; "menu", an object
                    \* the registry has dropped and an item of the menu
                    \* still refers to; "none", an object nothing else
                    \* refers to
    timers,         \* the GLib timeouts not yet fired, oldest first
    last,           \* the handler that has just run and not yet returned
                    \* to the main loop: its name, its arguments, the
                    \* error it let escape, its outputs
    recent,         \* history: the kind of the most recent device-attach
                    \* or device-detach event applied per <<device, vm>>
    pool_warned,    \* DiskSpace.pool_warned
    vms_warned,     \* DiskSpace.vms_warned: the warned VMs, by name
    refreshed,      \* the last call of DiskSpace.refresh_icon: what it
                    \* found, the error it let escape, what it sent
    menu            \* the menu show_menu built last: the VMs its submenus
                    \* list, the keys of the Device objects it refers to
                    \* that the registry still holds (live), and the
                    \* attachments of those the registry has dropped since
                    \* (stale; the objects live on in the menu)

vars ==
    <<phase, vms, devices, devs_added, devs_removed, held, timers, last,
      recent, pool_warned, vms_warned, refreshed, menu>>

NoName == "-"

\* The record of a handler run: the handler, the VM and device it was
\* called for, the outcomes its queries got (inp), the exception it let
\* escape ("none" if it returned), the deltas it handed to the notifier,
\* the external attach/detach calls it made and the notifications it sent.
Ran(op, vm, dev, inp, raised, added, removed, calls, sent) ==
    [dev |-> dev, op |-> op, vm |-> vm, inp |-> inp, raised |-> raised,
     added |-> added, removed |-> removed, calls |-> calls, sent |-> sent]

\* No menu has been built yet.
NoMenu == [shown |-> FALSE, domains |-> {}, live |-> {}, stale |-> << >>]

\* The disk space monitor has not refreshed yet.
NotYet == [op |-> "new", inp |-> << >>, raised |-> "none", sent |-> << >>]

\* The main loop is waiting for the next event.
Idle == Ran("idle", NoName, NoName, << >>, "none", << >>, << >>, << >>, << >>)

Init ==
    /\ phase = "new"
    /\ vms = {}
    /\ devices = << >>
    /\ devs_added = << >>
    /\ devs_removed = << >>
    /\ held = << >>
    /\ timers = << >>
    /\ last = Idle
    /\ recent = << >>
    /\ pool_warned = FALSE
    /\ vms_warned = {}
    /\ refreshed = NotYet
    /\ menu = NoMenu

\* The entries of buffer buf of direction dir, as <<direction, key>>.
Entries(dir, buf) ==
    UNION {{<<dir, buf[v][i].dev_name>> : i \in DOMAIN buf[v]} :
              v \in DOMAIN buf}

\* Buffer buf of direction dir as its objects show once the registry is
\* devs and the menu m: the buffers hold the Device objects themselves,
\* so an entry that is the registry's object has the attachments the
\* registry's record has, and one the menu still refers to those the
\* menu's object has.
Seen(buf, dir, h, devs, m) ==
    [v \in DOMAIN buf |->
        [i \in DOMAIN buf[v] |->
            LET k == buf[v][i].dev_name
            IN  IF h[<<dir, k>>] = "registry"
                THEN [buf[v][i] EXCEPT !.attachments =
                         devs[CHOOSE j \in DOMAIN devs :
                                  devs[j].dev_name = k].attachments]
                ELSE IF h[<<dir, k>>] = "menu"
                THEN [buf[v][i] EXCEPT !.attachments = m.stale[k]]
                ELSE buf[v][i]]]

\* A handler that changes attachment sets and leaves the buffers alone:
\* the buffered objects it changed show it.
BuffersFollow ==
    /\ devs_added' = Seen(devs_added, "added", held, devices', menu')
    /\ devs_removed' = Seen(devs_removed, "removed", held, devices', menu')
    /\ held' = held

\* A handler returns to the main loop.  An exception that escapes a GTK
\* signal callback (the toggle) is reported and the loop goes on.
Return ==
    /\ last.op # "idle"
    /\ phase # "exit"
    /\ last.raised = "none" \/ last.op = "toggle"
    /\ last' = Idle
    /\ UNCHANGED <<phase, vms, devices, devs_added, devs_removed, held,
                   timers, recent>>
    /\ UNCHANGED <<pool_warned, vms_warned, refreshed>>
    /\ UNCHANGED menu

\* main(): an exception that escapes a handler of the dispatcher ends
\* listen_for_events; the error dialog is shown and the process exits.
Exit ==
    /\ last.op \notin {"idle", "toggle"}
    /\ phase # "exit"
    /\ last.raised # "none"
    /\ phase' = "exit"
    /\ UNCHANGED <<vms, devices, devs_added, devs_removed, held, timers,
                   last, recent>>
    /\ UNCHANGED <<pool_warned, vms_warned, refreshed>>
    /\ UNCHANGED menu

(***************************************************************************)
(* Snapshot loader: initialize_vm_data and initialize_dev_data.            *)
(***************************************************************************)
\* running[d] is the outcome of d.is_running().
RECURSIVE VmLoop_abort(_, _, _)
\* Mutant of VmLoop: the try block encloses the whole loop, so the first
\* failing query ends the pass.
VmLoop_abort(i, running, tracked) ==
    IF i > Len(AllDomains) THEN [vms |-> tracked, raised |-> "none"]
    ELSE LET vm == AllDomains[i]
         IN  IF Klass(vm) = "AdminVM"
             THEN VmLoop_abort(i + 1, running, tracked)
             ELSE IF ~running[vm].ok
             THEN [vms |-> tracked, raised |-> "none"]
             ELSE VmLoop_abort(i + 1, running,
                               IF running[vm].val THEN tracked \cup {vm}
                               ELSE tracked)

RECURSIVE VmLoop_any_klass(_, _, _)
\* Mutant of VmLoop: the class of the VM is not looked at; the AdminVM,
\* which always runs, is tracked.
VmLoop_any_klass(i, running, tracked) ==
    IF i > Len(AllDomains) THEN [vms |-> tracked, raised |-> "none"]
    ELSE LET vm == AllDomains[i]
         IN  IF Klass(vm) = "AdminVM"
             THEN VmLoop_any_klass(i + 1, running, tracked \cup {vm})
             ELSE IF ~running[vm].ok
             THEN IF IsInstance(running[vm].exc, "QubesException")
                  THEN VmLoop_any_klass(i + 1, running, tracked)
                  ELSE [vms |-> tracked, raised |-> running[vm].exc]
             ELSE VmLoop_any_klass(i + 1, running,
                                   IF running[vm].val THEN tracked \cup {vm}
                                   ELSE tracked)

RECURSIVE VmLoop(_, _, _)
\* for vm in self.qapp.domains: is_running() is asked only of a VM that is
\* no AdminVM; a QubesException is passed over, anything else escapes.
VmLoop(i, running, tracked) ==
    IF i > Len(AllDomains) THEN [vms |-> tracked, raised |-> "none"]
    ELSE LET vm == AllDomains[i]
         IN  IF Klass(vm) = "AdminVM"
             THEN VmLoop(i + 1, running, tracked)
             ELSE IF ~running[vm].ok
             THEN IF IsInstance(running[vm].exc, "QubesException")
                  THEN VmLoop(i + 1, running, tracked)
                  ELSE [vms |-> tracked, raised |-> running[vm].exc]
             ELSE VmLoop(i + 1, running,
                         IF running[vm].val THEN tracked \cup {vm}
                         ELSE tracked)

\* initialize_vm_data on self.vms = set(); running[vm] is the outcome of
\* vm.is_running().
initialize_vm_data(running) == VmLoop(1, running, {})

\* All (domain, devclass) pairs in the order of the two nested loops.
RECURSIVE LoopPairs(_, _)
LoopPairs(i, j) ==
    IF i > Len(AllDomains) THEN << >>
    ELSE IF j > Len(DEV_TYPES) THEN LoopPairs(i + 1, 1)
    ELSE << <<AllDomains[i], DEV_TYPES[j]>> >> \o LoopPairs(i, j + 1)

RECURSIVE InsertAll(_, _)
\* for device in listing: self.devices[str(device)] = Device(device)
InsertAll(devs, listing) ==
    IF listing = << >> THEN devs
    ELSE InsertAll(SetItem(devs, Str(Head(listing)), Device(Head(listing))),
                   Tail(listing))

RECURSIVE ListAllDevices_abort(_, _, _)
\* Mutant of ListAllDevices: the first failing listing ends the pass.
ListAllDevices_abort(pairs, present, devs) ==
    IF pairs = << >> THEN devs
    ELSE LET d == Head(pairs)[1]
             c == Head(pairs)[2]
             r == present[d][c]
         IN  IF r.ok
             THEN ListAllDevices_abort(Tail(pairs), present,
                                       InsertAll(devs, r.val))
             ELSE devs

RECURSIVE ListAllDevices(_, _, _)
\* First pass: present[d][c] is the outcome of iterating d.devices[c].
ListAllDevices(pairs, present, devs) ==
    IF pairs = << >> THEN devs
    ELSE LET d == Head(pairs)[1]
             c == Head(pairs)[2]
             r == present[d][c]
         IN  IF r.ok
             THEN ListAllDevices(Tail(pairs), present, InsertAll(devs, r.val))
             ELSE ListAllDevices(Tail(pairs), present, devs)

\* Mutant of AddAttached: a listed device that is not in the registry is
\* given a record.
AddAttached_ghost(devs, listing, name) ==
    LET ghosts == SelectSeq(<<BlockDev, UsbDev, MicDev>>,
                            LAMBDA dev : /\ dev \in listing
                                         /\ Str(dev) \notin Keys(devs))
        all == devs \o [i \in 1..Len(ghosts) |-> Device(ghosts[i])]
    IN  [i \in DOMAIN all |->
            IF \E dev \in listing : Str(dev) = all[i].dev_name
            THEN [all[i] EXCEPT !.attachments = @ \cup {name}]
            ELSE all[i]]

\* for device in listing: if str(device) in devs: attachments.add(name)
AddAttached(devs, listing, name) ==
    [i \in DOMAIN devs |->
        IF \E dev \in listing : Str(dev) = devs[i].dev_name
        THEN [devs[i] EXCEPT !.attachments = @ \cup {name}]
        ELSE devs[i]]

RECURSIVE ListAttachments(_, _, _)
\* Second pass: attached[d][c] is the outcome of d.devices[c].attached().
ListAttachments(pairs, attached, devs) ==
    IF pairs = << >> THEN devs
    ELSE LET d == Head(pairs)[1]
             c == Head(pairs)[2]
             r == attached[d][c]
         IN  IF r.ok
             THEN ListAttachments(Tail(pairs), attached,
                                  AddAttached(devs, r.val, d))
             ELSE ListAttachments(Tail(pairs), attached, devs)

initialize_dev_data(present, attached) ==
    ListAttachments(LoopPairs(1, 1), attached,
                    ListAllDevices(LoopPairs(1, 1), present, << >>))

(***************************************************************************)
(* The outcomes the directory's queries can have.                          *)
(***************************************************************************)
Failures == {Raise(e) : e \in ErrKinds}

\* vm.is_running()
RunOutcomes == {Ok(TRUE), Ok(FALSE)} \cup Failures

\* The order in which the directory lists devices (by ident within a
\* class); no two devices of Universe share backend and class.
ListingOrder == <<BlockDev, UsbDev, MicDev>>

\* The listing of the devices of set S.
Listing(S) == SelectSeq(ListingOrder, LAMBDA dev : dev \in S)

\* The VMs a device can be attached to: not its backend, not the AdminVM.
Targets(dev) ==
    {d \in DomainSet : d # dev.backend_domain /\ Klass(d) # "AdminVM"}

\* The VMs whose running state the loader asks for.
Plain == {d \in DomainSet : Klass(d) # "AdminVM"}

\* A directory as a handler finds it: the devices that are present, the
\* VM each device is attached to (NoName: none), and the query that fails,
\* <<domain, devclass, "devices" or "attached", exception>>, if one does.
Worlds ==
    {[present |-> p, att |-> a, fail |-> f] :
        p \in SUBSET Universe,
        a \in {m \in [Universe -> DomainSet \cup {NoName}] :
                  \A dev \in Universe :
                      m[dev] \in Targets(dev) \cup {NoName}},
        f \in {{}} \cup {{<<d, c, q, e>>} :
                            d \in DomainSet, c \in DevTypeSet,
                            q \in {"devices", "attached"}, e \in ErrKinds}}

\* The outcome of query q on (d, c) in world w when it does not fail is v.
Outcome(w, d, c, q, v) ==
    IF \E e \in ErrKinds : <<d, c, q, e>> \in w.fail
    THEN Raise(CHOOSE e \in ErrKinds : <<d, c, q, e>> \in w.fail)
    ELSE Ok(v)

\* The outcome of iterating d.devices[c] in world w.
PresentOutcome(w, d, c) ==
    Outcome(w, d, c, "devices",
            Listing({dev \in w.present :
                        dev.backend_domain = d /\ dev.devclass = c}))

\* The outcome of d.devices[c].attached() in world w.  A device that is
\* attached but no longer present is still listed (a ghost entry).
AttachedOutcome(w, d, c) ==
    Outcome(w, d, c, "attached",
            {dev \in Universe : dev.devclass = c /\ w.att[dev] = d})

\* The main loop is running and no handler is.
AtLoop == phase = "run" /\ last.op = "idle"

(***************************************************************************)
(* DevicesTray.__init__: the two loader passes, over the running-state     *)
(* answers R and the directories W.                                        *)
(***************************************************************************)
InitializeVmDataIn(R) ==
    /\ phase = "new"
    /\ last.op = "idle"
    /\ \E running \in R :
          LET r == initialize_vm_data(running)
          IN  /\ vms' = r.vms
              /\ last' = Ran("initialize_vm_data", NoName, NoName, running,
                             r.raised, << >>, << >>, << >>, << >>)
    /\ phase' = "vms"
    /\ UNCHANGED <<devices, devs_added, devs_removed, held, timers,
                   recent>>
    /\ UNCHANGED <<pool_warned, vms_warned, refreshed>>
    /\ UNCHANGED menu

InitializeDevDataIn(W) ==
    /\ phase = "vms"
    /\ last.op = "idle"
    /\ \E w \in W :
          LET present == [d \in DomainSet |-> [c \in DevTypeSet |->
                             PresentOutcome(w, d, c)]]
              attached == [d \in DomainSet |-> [c \in DevTypeSet |->
                              AttachedOutcome(w, d, c)]]
          IN  /\ devices' = initialize_dev_data(present, attached)
              /\ last' = Ran("initialize_dev_data", NoName, NoName,
                             [present |-> present, attached |-> attached],
                             "none", << >>, << >>, << >>, << >>)
    /\ phase' = "run"
    /\ UNCHANGED <<vms, devs_added, devs_removed, held, timers, recent>>
    /\ UNCHANGED <<pool_warned, vms_warned, refreshed>>
    /\ UNCHANGED menu

InitializeVmData == InitializeVmDataIn([Plain -> RunOutcomes])

InitializeDevData == InitializeDevDataIn(Worlds)

(***************************************************************************)
(* Event handlers of the registry.                                         *)
(***************************************************************************)

(***************************************************************************)
(* on_label_changed: the handler of property-set:label.  It changes icons  *)
(* only, which the registry's records here do not carry.  name is the      *)
(* outcome of vm.name, icon that of vm.label.icon, read only when a        *)
(* tracked VM or a device's backend has that name.                         *)
(***************************************************************************)
on_label_changed(tracked, devs, vm, name, icon) ==
    LET read == /\ name.ok
                /\ \/ name.val \in tracked
                   \/ \E i \in DOMAIN devs :
                         devs[i].backend_domain = name.val
        raised == IF vm = NoName THEN "none"
                  ELSE IF ~name.ok
                  THEN IF IsInstance(name.exc, "QubesPropertyAccessError")
                       THEN "none" ELSE name.exc
                  ELSE IF read /\ ~icon.ok /\
                          ~IsInstance(icon.exc, "QubesPropertyAccessError")
                  THEN icon.exc
                  ELSE "none"
    IN  [vms |-> tracked, devices |-> devs, raised |-> raised]

\* property-set:label of a VM, or of the global properties (NoName), the
\* property reads failing with an exception of E.
OnLabelChangedIn(E) ==
    /\ AtLoop
    /\ \E vm \in DomainSet \cup {NoName} :
       \E name \in {Ok(vm)} \cup {Raise(e) : e \in E} :
       \E icon \in {Ok("appvm-red")} \cup {Raise(e) : e \in E} :
          LET r == on_label_changed(vms, devices, vm, name, icon)
          IN  /\ vms' = r.vms
              /\ devices' = r.devices
              /\ last' = Ran("on_label_changed", vm, NoName,
                             [name |-> name, icon |-> icon], r.raised,
                             << >>, << >>, << >>, << >>)
    /\ UNCHANGED <<phase, devs_added, devs_removed, held, timers, recent>>
    /\ UNCHANGED <<pool_warned, vms_warned, refreshed>>
    /\ UNCHANGED menu

OnLabelChanged == OnLabelChangedIn(ErrKinds)

\* Mutant of device_attached: the record is built anew on every event, so
\* the attachments it had are lost.
device_attached_replaces(devs, vm, device, run) ==
    IF ~run.ok
    THEN [devices |-> devs,
          raised |-> IF IsInstance(run.exc, "QubesPropertyAccessError")
                     THEN "none" ELSE run.exc]
    ELSE IF ~run.val \/ device.devclass \notin DevTypeSet
    THEN [devices |-> devs, raised |-> "none"]
    ELSE [devices |->
              AttachmentsAdd(SetItem(devs, Str(device), Device(device)),
                             Str(device), vm),
          raised |-> "none"]

\* Mutant of device_attached: the class of the device is not looked at.
device_attached_any_class(devs, vm, device, run) ==
    IF ~run.ok
    THEN [devices |-> devs,
          raised |-> IF IsInstance(run.exc, "QubesPropertyAccessError")
                     THEN "none" ELSE run.exc]
    ELSE IF ~run.val
    THEN [devices |-> devs, raised |-> "none"]
    ELSE LET known == IF Str(device) \notin Keys(devs)
                      THEN SetItem(devs, Str(device), Device(device))
                      ELSE devs
         IN  [devices |-> AttachmentsAdd(known, Str(device), vm),
              raised |-> "none"]

\* run is the outcome of vm.is_running().
device_attached(devs, vm, device, run) ==
    IF ~run.ok
    THEN [devices |-> devs,
          raised |-> IF IsInstance(run.exc, "QubesPropertyAccessError")
                     THEN "none" ELSE run.exc]
    ELSE IF ~run.val \/ device.devclass \notin DevTypeSet
    THEN [devices |-> devs, raised |-> "none"]
    ELSE LET known == IF Str(device) \notin Keys(devs)
                      THEN SetItem(devs, Str(device), Device(device))
                      ELSE devs
         IN  [devices |-> AttachmentsAdd(known, Str(device), vm),
              raised |-> "none"]

\* Mutant of device_detached: the key is looked up without the test
\* "device in self.devices", a KeyError for an unknown device.
device_detached_unchecked(devs, vm, device, run) ==
    IF ~run.ok
    THEN [devices |-> devs,
          raised |-> IF IsInstance(run.exc, "QubesPropertyAccessError")
                     THEN "none" ELSE run.exc]
    ELSE IF ~run.val
    THEN [devices |-> devs, raised |-> "none"]
    ELSE IF Str(device) \in Keys(devs)
    THEN [devices |-> AttachmentsDiscard(devs, Str(device), vm),
          raised |-> "none"]
    ELSE [devices |-> devs, raised |-> "KeyError"]

\* Mutant of device_detached: the attachment is not discarded.
device_detached_keeps(devs, vm, device, run) ==
    [devices |-> devs,
     raised |-> IF run.ok \/ IsInstance(run.exc, "QubesPropertyAccessError")
                THEN "none" ELSE run.exc]

device_detached(devs, vm, device, run) ==
    IF ~run.ok
    THEN [devices |-> devs,
          raised |-> IF IsInstance(run.exc, "QubesPropertyAccessError")
                     THEN "none" ELSE run.exc]
    ELSE IF ~run.val
    THEN [devices |-> devs, raised |-> "none"]
    ELSE IF Str(device) \in Keys(devs)
    THEN [devices |-> AttachmentsDiscard(devs, Str(device), vm),
          raised |-> "none"]
    ELSE [devices |-> devs, raised |-> "none"]

\* The attachment set devs holds for key k (none if k is absent).
Had(devs, k) == IF k \in Keys(devs) THEN GetItem(devs, k).attachments ELSE {}

\* The devices an attach or detach event can name.  The record of a run
\* keeps the outcome of is_running() and the attachments the handler found.
EventDevices == Universe \cup {PciDev}

\* device-attach of a device of D, is_running() answering in R.
DeviceAttachedOf(D, R) ==
    /\ AtLoop
    /\ \E device \in D : \E vm \in Targets(device) : \E run \in R :
          LET r == device_attached(devices, vm, device, run)
          IN  /\ devices' = r.devices
              /\ last' = Ran("device_attached", vm, Str(device),
                             [run |-> run, had |-> Had(devices, Str(device))],
                             r.raised, << >>, << >>, << >>, << >>)
    /\ UNCHANGED <<phase, vms, timers>>
    /\ UNCHANGED <<pool_warned, vms_warned, refreshed>>
    /\ UNCHANGED menu
    /\ BuffersFollow

\* device-detach of a device of D, is_running() answering in R.
DeviceDetachedOf(D, R) ==
    /\ AtLoop
    /\ \E device \in D : \E vm \in Targets(device) : \E run \in R :
          LET r == device_detached(devices, vm, device, run)
          IN  /\ devices' = r.devices
              /\ last' = Ran("device_detached", vm, Str(device),
                             [run |-> run, had |-> Had(devices, Str(device))],
                             r.raised, << >>, << >>, << >>, << >>)
    /\ UNCHANGED <<phase, vms, timers>>
    /\ UNCHANGED <<pool_warned, vms_warned, refreshed>>
    /\ UNCHANGED menu
    /\ BuffersFollow

DeviceAttachedEvent == DeviceAttachedOf(EventDevices, RunOutcomes)

DeviceDetachedEvent == DeviceDetachedOf(EventDevices, RunOutcomes)

DeviceAttached == DeviceAttachedEvent /\ UNCHANGED recent

DeviceDetached == DeviceDetachedEvent /\ UNCHANGED recent

\* The history after handler run l: an attach or detach event of a running
\* VM and a device of a class of DEV_TYPES is the most recent of its pair.
Noted(hist, l) ==
    IF /\ l.inp.run = Ok(TRUE)
       /\ \E dev \in Universe : Str(dev) = l.dev
    THEN [p \in DOMAIN hist \cup {<<l.dev, l.vm>>} |->
            IF p = <<l.dev, l.vm>> THEN l.op ELSE hist[p]]
    ELSE hist

\* The same events, with the history kept.
DeviceAttachedNoted == DeviceAttachedEvent /\ recent' = Noted(recent, last')

DeviceDetachedNoted == DeviceDetachedEvent /\ recent' = Noted(recent, last')

RECURSIVE StartLoop(_, _, _, _)
\* The loop of vm_start over DEV_TYPES[i..]: attached[c] is the outcome of
\* vm.devices[c].attached().
StartLoop(i, devs, vm, attached) ==
    IF i > Len(DEV_TYPES) THEN [devices |-> devs, raised |-> "none"]
    ELSE LET r == attached[DEV_TYPES[i]]
         IN  IF r.ok
             THEN StartLoop(i + 1, AddAttached(devs, r.val, vm), vm,
                            attached)
             ELSE IF IsInstance(r.exc, "QubesDaemonAccessError")
             THEN [devices |-> devs, raised |-> "none"]
             ELSE [devices |-> devs, raised |-> r.exc]

vm_start(tracked, devs, vm, attached) ==
    LET r == StartLoop(1, devs, vm, attached)
    IN  [vms |-> tracked \cup {vm}, devices |-> r.devices,
         raised |-> r.raised]

\* Mutant of vm_shutdown: set.remove in place of set.discard, a KeyError
\* for a VM that is not tracked.
vm_shutdown_remove(tracked, devs, vm) ==
    IF vm \notin tracked
    THEN [vms |-> tracked, devices |-> devs, raised |-> "KeyError"]
    ELSE [vms |-> tracked \ {vm},
          devices |-> [i \in DOMAIN devs |->
                         [devs[i] EXCEPT !.attachments = @ \ {vm}]],
          raised |-> "none"]

\* Mutant of vm_shutdown: the devices' attachment sets are not pruned.
vm_shutdown_no_prune(tracked, devs, vm) ==
    [vms |-> tracked \ {vm}, devices |-> devs, raised |-> "none"]

\* Mutant of vm_shutdown: the devices of which vm is the backend are
\* dropped from the registry.
vm_shutdown_drops_devices(tracked, devs, vm) ==
    [vms |-> tracked \ {vm},
     devices |-> [i \in DOMAIN SelectSeq(devs,
                      LAMBDA dev : dev.backend_domain # vm) |->
                    [SelectSeq(devs, LAMBDA dev : dev.backend_domain # vm)[i]
                        EXCEPT !.attachments = @ \ {vm}]],
     raised |-> "none"]

vm_shutdown(tracked, devs, vm) ==
    [vms |-> tracked \ {vm},
     devices |-> [i \in DOMAIN devs |->
                    [devs[i] EXCEPT !.attachments = @ \ {vm}]],
     raised |-> "none"]

\* The directories a domain-start event of vm can find: the devices
\* attached to vm, and at most one failing attached() query of vm.
\* running tells whether vm runs when the event is handled; it does not
\* when the event is handled after vm has stopped again.  The handler
\* does not ask.
StartWorlds(vm) ==
    {[running |-> b, present |-> Universe, att |-> a, fail |-> f] :
        a \in {m \in [Universe -> {vm, NoName}] :
                  \A dev \in Universe : m[dev] = vm => vm \in Targets(dev)},
        f \in {{}} \cup {{<<vm, c, "attached", e>>} :
                            c \in DevTypeSet, e \in ErrKinds},
        b \in BOOLEAN}

\* domain-start of a VM; WS[vm] are the directories the handler can find.
\* The record of the run keeps the listings, whether vm ran and whether
\* it was tracked already.
VmStartIn(WS) ==
    /\ AtLoop
    /\ \E vm \in Plain : \E w \in WS[vm] :
          LET attached == [c \in DevTypeSet |-> AttachedOutcome(w, vm, c)]
              r == vm_start(vms, devices, vm, attached)
          IN  /\ vms' = r.vms
              /\ devices' = r.devices
              /\ last' = Ran("vm_start", vm, NoName,
                             [running |-> w.running, tracked |-> vm \in vms,
                              attached |-> attached],
                             r.raised, << >>, << >>, << >>, << >>)
    /\ UNCHANGED <<phase, timers, recent>>
    /\ UNCHANGED <<pool_warned, vms_warned, refreshed>>
    /\ UNCHANGED menu
    /\ BuffersFollow

VmStart == VmStartIn([vm \in Plain |-> StartWorlds(vm)])

\* The handler of domain-shutdown and of domain-start-failed.  The record
\* of the run keeps what the handler found: whether vm was tracked and the
\* devices that listed it.
VmShutdown ==
    /\ AtLoop
    /\ \E vm \in Plain : \E event \in {"domain-shutdown",
                                        "domain-start-failed"} :
          LET r == vm_shutdown(vms, devices, vm)
          IN  /\ vms' = r.vms
              /\ devices' = r.devices
              /\ last' = Ran("vm_shutdown", vm, NoName,
                             [tracked |-> vm \in vms, event |-> event,
                              listed |-> {devices[i].dev_name :
                                  i \in {j \in DOMAIN devices :
                                      vm \in devices[j].attachments}}],
                             r.raised, << >>, << >>, << >>, << >>)
    /\ UNCHANGED <<phase, timers, recent>>
    /\ UNCHANGED <<pool_warned, vms_warned, refreshed>>
    /\ UNCHANGED menu
    /\ BuffersFollow

\* DevicesTray.emit_notification: what reaches send_notification.  An id
\* that is empty (or None, which "" stands for) is passed on as it is.
emit_notification(title, message, priority, error, notification_id) ==
    [title |-> title, priority |-> priority, error |-> error,
     id |-> IF error /\ notification_id # ""
            THEN notification_id \o "ERROR" ELSE notification_id,
     body |-> message]

(***************************************************************************)
(* The debounce notifier: the buffers devs_added and devs_removed, a       *)
(* dict vm -> list each, and one GLib timeout per buffered device.         *)
(***************************************************************************)
RECURSIVE StrLess(_, _)
\* a < b for two strings, as Python orders them (by code point).
StrLess(a, b) ==
    IF b = << >> THEN FALSE
    ELSE IF a = << >> THEN TRUE
    ELSE IF Head(a) # Head(b) THEN Head(a) < Head(b)
    ELSE StrLess(Tail(a), Tail(b))

RECURSIVE Insert(_, _)
Insert(x, s) ==
    IF s = << >> THEN <<x>>
    ELSE IF StrLess(Head(s), x) THEN <<Head(s)>> \o Insert(x, Tail(s))
    ELSE <<x>> \o s

RECURSIVE Sort(_)
\* lines.sort()
Sort(lines) ==
    IF lines = << >> THEN << >> ELSE Insert(Head(lines), Sort(Tail(lines)))

RECURSIVE Join(_)
\* "\n".join(lines)
Join(lines) ==
    IF lines = << >> THEN << >>
    ELSE IF Len(lines) = 1 THEN lines[1]
    ELSE lines[1] \o <<10>> \o Join(Tail(lines))

\* Mutant of DeviceEq: object identity, which no key string and no freshly
\* built Device satisfies.
DeviceEq_identity(dev, other_str) == FALSE

\* Device.__eq__: a Device equals whatever has the same str().
DeviceEq(dev, other_str) == dev.dev_name = other_str

\* dev in l, for a list of Devices, by Device.__eq__.
Contains(l, dev_name) == \E i \in DOMAIN l : DeviceEq(l[i], dev_name)

\* l.remove(dev): the first equal element goes.
Remove(l, dev_name) ==
    LET i == CHOOSE j \in DOMAIN l :
                 /\ DeviceEq(l[j], dev_name)
                 /\ \A k \in 1..(j - 1) : ~DeviceEq(l[k], dev_name)
    IN  SubSeq(l, 1, i - 1) \o SubSeq(l, i + 1, Len(l))

\* A pending timeout: GLib.timeout_add(5000, callback, dev).
Timeout(dir, dev_name) == [dev |-> dev_name, dir |-> dir, left |-> WindowTicks]

\* Mutant of ComposeBody: the descriptions in buffer order.
ComposeBody_unsorted(known) ==
    Join([i \in DOMAIN known |-> known[i].description])

\* The body of a notification: the sorted descriptions, joined.
ComposeBody(known) ==
    Join(Sort([i \in DOMAIN known |-> known[i].description]))

RECURSIVE AddPending_restart(_, _, _, _)
\* Mutant of AddPending: a timeout is started for every device handed in,
\* buffered already or not.
AddPending_restart(known, tmrs, dir, devs) ==
    IF devs = << >> THEN [timers |-> tmrs, known |-> known]
    ELSE AddPending_restart(
             IF Contains(known, Head(devs).dev_name) THEN known
             ELSE Append(known, Head(devs)),
             Append(tmrs, Timeout(dir, Head(devs).dev_name)),
             dir, Tail(devs))

RECURSIVE AddPending_extend(_, _, _, _)
\* Mutant of AddPending: a device handed in while it is buffered has its
\* timeout started afresh.
AddPending_extend(known, tmrs, dir, devs) ==
    IF devs = << >> THEN [timers |-> tmrs, known |-> known]
    ELSE IF Contains(known, Head(devs).dev_name)
    THEN AddPending_extend(
             known,
             [i \in DOMAIN tmrs |->
                 IF tmrs[i].dir = dir /\ tmrs[i].dev = Head(devs).dev_name
                 THEN Timeout(dir, Head(devs).dev_name) ELSE tmrs[i]],
             dir, Tail(devs))
    ELSE AddPending_extend(Append(known, Head(devs)),
                           Append(tmrs, Timeout(dir, Head(devs).dev_name)),
                           dir, Tail(devs))

RECURSIVE AddPending(_, _, _, _)
\* for dev in devs: if not dev in known: known.append(dev); timeout_add(...)
AddPending(known, tmrs, dir, devs) ==
    IF devs = << >> THEN [timers |-> tmrs, known |-> known]
    ELSE IF Contains(known, Head(devs).dev_name)
    THEN AddPending(known, tmrs, dir, Tail(devs))
    ELSE AddPending(Append(known, Head(devs)),
                    Append(tmrs, Timeout(dir, Head(devs).dev_name)),
                    dir, Tail(devs))

\* notify_devices_added(vm, devs) on buffer buf = self.devs_added.
notify_devices_added(buf, tmrs, vm, devs) ==
    LET known == IF vm \in DOMAIN buf THEN buf[vm] ELSE << >>
        r == AddPending(known, tmrs, "added", devs)
    IN  [timers |-> r.timers,
         buf |-> [v \in DOMAIN buf \cup {vm} |->
                     IF v = vm THEN r.known ELSE buf[v]],
         note |-> emit_notification(<<"Devices added on", vm>>,
                      ComposeBody(r.known), "LOW", FALSE,
                      "device-added-" \o vm)]

\* Mutant of notify_devices_removed: the body lists the devices handed in,
\* not the whole buffer.
notify_devices_removed_delta(buf, tmrs, vm, devs) ==
    LET known == IF vm \in DOMAIN buf THEN buf[vm] ELSE << >>
        r == AddPending(known, tmrs, "removed", devs)
    IN  [timers |-> r.timers,
         buf |-> [v \in DOMAIN buf \cup {vm} |->
                     IF v = vm THEN r.known ELSE buf[v]],
         note |-> emit_notification(<<"Devices removed on", vm>>,
                      ComposeBody(devs), "LOW", FALSE,
                      "device-removed-" \o vm)]

\* notify_devices_removed(vm, devs) on buffer buf = self.devs_removed.
notify_devices_removed(buf, tmrs, vm, devs) ==
    LET known == IF vm \in DOMAIN buf THEN buf[vm] ELSE << >>
        r == AddPending(known, tmrs, "removed", devs)
    IN  [timers |-> r.timers,
         buf |-> [v \in DOMAIN buf \cup {vm} |->
                     IF v = vm THEN r.known ELSE buf[v]],
         note |-> emit_notification(<<"Devices removed on", vm>>,
                      ComposeBody(r.known), "LOW", FALSE,
                      "device-removed-" \o vm)]

\* _remove_notify_added(dev) on buffer buf = self.devs_added.
remove_notify_added(buf, dev_name) ==
    LET pruned == [v \in DOMAIN buf |->
                      IF Contains(buf[v], dev_name)
                      THEN Remove(buf[v], dev_name) ELSE buf[v]]
        vm_done == {v \in DOMAIN buf : Len(pruned[v]) = 0}
    IN  [v \in DOMAIN buf \ vm_done |-> pruned[v]]

\* _remove_notify_removed(dev) on buffer buf = self.devs_removed.
remove_notify_removed(buf, dev_name) ==
    LET pruned == [v \in DOMAIN buf |->
                      IF Contains(buf[v], dev_name)
                      THEN Remove(buf[v], dev_name) ELSE buf[v]]
        vm_done == {v \in DOMAIN buf : Len(pruned[v]) = 0}
    IN  [v \in DOMAIN buf \ vm_done |-> pruned[v]]

\* A timeout that is due fires: its callback runs once and it is gone.
TimeoutFires ==
    /\ AtLoop
    /\ \E i \in DOMAIN timers :
          /\ timers[i].left = 0
          /\ timers' = SubSeq(timers, 1, i - 1) \o
                       SubSeq(timers, i + 1, Len(timers))
          /\ IF timers[i].dir = "added"
             THEN /\ devs_added' = remove_notify_added(devs_added,
                                                       timers[i].dev)
                  /\ UNCHANGED devs_removed
                  /\ last' = Ran("_remove_notify_added", NoName,
                                 timers[i].dev, << >>, "none", << >>, << >>,
                                 << >>, << >>)
             ELSE /\ devs_removed' = remove_notify_removed(devs_removed,
                                                           timers[i].dev)
                  /\ UNCHANGED devs_added
                  /\ last' = Ran("_remove_notify_removed", NoName,
                                 timers[i].dev, << >>, "none", << >>, << >>,
                                 << >>, << >>)
    /\ held' = [p \in Entries("added", devs_added') \cup
                      Entries("removed", devs_removed') |-> held[p]]
    /\ UNCHANGED <<phase, vms, devices, recent>>
    /\ UNCHANGED <<pool_warned, vms_warned, refreshed>>
    /\ UNCHANGED menu

\* Time passes in the main loop: one tick, while no timeout is due.
Tick ==
    /\ AtLoop
    /\ timers # << >>
    /\ \A i \in DOMAIN timers : timers[i].left > 0
    /\ timers' = [i \in DOMAIN timers |->
                     [timers[i] EXCEPT !.left = @ - 1]]
    /\ UNCHANGED <<phase, vms, devices, devs_added, devs_removed, held,
                   last, recent>>
    /\ UNCHANGED <<pool_warned, vms_warned, refreshed>>
    /\ UNCHANGED menu

(***************************************************************************)
(* device_list_update: the handler of device-list-change.                  *)
(***************************************************************************)
\* Mutant of ChangedDevices: the first class of DEV_TYPES alone is
\* enumerated.
ChangedDevices_one_class(i, listing) ==
    LET r == listing[DEV_TYPES[1]]
    IN  IF ~r.ok THEN r
        ELSE Ok([j \in DOMAIN r.val |-> Device(r.val[j])])

RECURSIVE ChangedDevices_partial(_, _)
\* Mutant of ChangedDevices: an exception ends the loop and the devices
\* enumerated before it are kept.
ChangedDevices_partial(i, listing) ==
    IF i > Len(DEV_TYPES) THEN Ok(<< >>)
    ELSE LET r == listing[DEV_TYPES[i]]
         IN  IF ~r.ok THEN Ok(<< >>)
             ELSE Ok([j \in DOMAIN r.val |-> Device(r.val[j])] \o
                     ChangedDevices_partial(i + 1, listing).val)

RECURSIVE ChangedDevices(_, _)
\* The try block: listing[c] is the outcome of iterating vm.devices[c].
\* The result is the list, or the exception that ended the loop.
ChangedDevices(i, listing) ==
    IF i > Len(DEV_TYPES) THEN Ok(<< >>)
    ELSE LET r == listing[DEV_TYPES[i]]
         IN  IF ~r.ok THEN r
             ELSE LET rest == ChangedDevices(i + 1, listing)
                  IN  IF ~rest.ok THEN rest
                      ELSE Ok([j \in DOMAIN r.val |-> Device(r.val[j])]
                              \o rest.val)

RECURSIVE AddChanged_replace(_, _, _)
\* Mutant of AddChanged: every enumerated device gets the fresh record.
AddChanged_replace(devs, added, changed) ==
    IF changed = << >> THEN [devices |-> devs, added |-> added]
    ELSE LET dev == Head(changed)
         IN  AddChanged_replace(SetItem(devs, dev.dev_name, dev),
                                IF dev.dev_name \notin Keys(devs)
                                THEN Append(added, dev) ELSE added,
                                Tail(changed))

RECURSIVE AddChanged(_, _, _)
\* for dev in changed_devices: the unknown ones are inserted and added.
AddChanged(devs, added, changed) ==
    IF changed = << >> THEN [devices |-> devs, added |-> added]
    ELSE LET dev == Head(changed)
         IN  IF dev.dev_name \notin Keys(devs)
             THEN AddChanged(SetItem(devs, dev.dev_name, dev),
                             Append(added, dev), Tail(changed))
             ELSE AddChanged(devs, added, Tail(changed))

\* The places in devs of the devices of vm that changed does not hold,
\* in dict order.
RemovedPlaces(devs, vm, changed) ==
    SelectSeq([i \in DOMAIN devs |-> i],
              LAMBDA i : /\ devs[i].backend_domain = vm
                         /\ ~Contains(changed, devs[i].dev_name))

device_list_update(devs, added_buf, removed_buf, tmrs, vm, listing) ==
    LET got == ChangedDevices(1, listing)
        raised == IF got.ok \/ IsInstance(got.exc, "QubesException")
                  THEN "none" ELSE got.exc
        changed_devices == IF got.ok THEN got.val ELSE << >>
        a == AddChanged(devs, << >>, changed_devices)
        places == RemovedPlaces(a.devices, vm, changed_devices)
        removed == [j \in DOMAIN places |-> a.devices[places[j]]]
        kept == SelectSeq(a.devices,
                          LAMBDA dev : ~Contains(removed, dev.dev_name))
        na == IF Len(a.added) > 0
              THEN notify_devices_added(added_buf, tmrs, vm, a.added)
              ELSE [timers |-> tmrs, buf |-> added_buf]
        nr == IF Len(removed) > 0
              THEN notify_devices_removed(removed_buf, na.timers, vm, removed)
              ELSE [timers |-> na.timers, buf |-> removed_buf]
    IN  IF raised # "none"
        THEN [devices |-> devs, devs_added |-> added_buf,
              devs_removed |-> removed_buf, timers |-> tmrs,
              raised |-> raised, added |-> << >>, removed |-> << >>,
              sent |-> << >>]
        ELSE [devices |-> kept, devs_added |-> na.buf,
              devs_removed |-> nr.buf, timers |-> nr.timers,
              raised |-> "none",
              added |-> [j \in DOMAIN a.added |-> a.added[j].dev_name],
              removed |-> [j \in DOMAIN removed |-> removed[j].dev_name],
              sent |-> (IF Len(a.added) > 0 THEN <<na.note>> ELSE << >>) \o
                       (IF Len(removed) > 0 THEN <<nr.note>> ELSE << >>)]

\* The directories a device-list-change event of vm can find: the devices
\* vm shows, and at most one failing listing of vm, with an exception of E.
ListWorlds(vm, E) ==
    {[present |-> p, att |-> [x \in Universe |-> NoName], fail |-> f] :
        p \in SUBSET {dev \in Universe : dev.backend_domain = vm},
        f \in {{}} \cup {{<<vm, c, "devices", e>>} :
                            c \in DevTypeSet, e \in E}}

\* The menu after `del self.devices[k]` for the keys of removed: the
\* Device objects the menu refers to are no longer the registry's, and
\* keep the attachments they had.
MenuAfterRemoval(m, devs, removed) ==
    [m EXCEPT !.live = @ \ removed,
              !.stale = [k \in DOMAIN m.stale \cup (m.live \cap removed) |->
                            IF k \in DOMAIN m.stale THEN m.stale[k]
                            ELSE Had(devs, k)]]

\* Which object each buffered entry is once device_list_update has run
\* with result r on registry devs, menu m open: a Device the call put
\* into the registry and the added-buffer is one object, an entry that
\* was the registry's object and whose key the call drops is from then
\* on held by the menu's item at most, and so is a dropped Device the
\* call put into the removed-buffer.  An entry buffered before stays the
\* object it was.
HeldAfter(h, m, devs, r) ==
    LET dropped == Keys(devs) \ Keys(r.devices)
        after(k) == IF k \in m.live THEN "menu" ELSE "none"
    IN  [p \in Entries("added", r.devs_added) \cup
                Entries("removed", r.devs_removed) |->
            IF p \in DOMAIN h
            THEN IF h[p] = "registry" /\ p[2] \in dropped
                 THEN after(p[2]) ELSE h[p]
            ELSE IF p[1] = "added" THEN "registry" ELSE after(p[2])]

\* device-list-change:<devclass> of a VM of V, for a devclass of C;
\* LW[vm] are the directories the handler can find.  The record of the
\* run keeps the event, the listings and the keys of vm's devices the
\* handler found.
DeviceListUpdateOf(V, C, LW) ==
    /\ AtLoop
    /\ \E vm \in V : \E devclass \in C : \E w \in LW[vm] :
          LET listing == [c \in DevTypeSet |-> PresentOutcome(w, vm, c)]
              r == device_list_update(devices, devs_added, devs_removed,
                                      timers, vm, listing)
          IN  /\ devices' = r.devices
              /\ devs_added' = r.devs_added
              /\ devs_removed' = r.devs_removed
              /\ held' = HeldAfter(held, menu, devices, r)
              /\ timers' = r.timers
              /\ last' = Ran("device_list_update", vm, NoName,
                             [listing |-> listing,
                              known |-> {devices[i].dev_name :
                                  i \in {j \in DOMAIN devices :
                                      devices[j].backend_domain = vm}},
                              event |-> "device-list-change:" \o devclass],
                             r.raised, r.added, r.removed, << >>, r.sent)
              /\ menu' = MenuAfterRemoval(menu, devices,
                                          Keys(devices) \ Keys(r.devices))
    /\ UNCHANGED <<phase, vms, recent>>
    /\ UNCHANGED <<pool_warned, vms_warned, refreshed>>

\* The same, on every directory whose failing enumeration raises an
\* exception of E.
DeviceListUpdateIn(V, C, E) ==
    DeviceListUpdateOf(V, C, [vm \in DomainSet |-> ListWorlds(vm, E)])

DeviceListUpdate == DeviceListUpdateIn(DomainSet, DevTypeSet, ErrKinds)

(***************************************************************************)
(* DomainMenu: the attach/detach toggle of a device's submenu.             *)
(***************************************************************************)
\* An external call of the attachment API, or the re-read of the device's
\* attachments, as the toggle made it.
Call(op, vm, ok) == [ok |-> ok, op |-> op, vm |-> vm, persistent |-> FALSE]

\* The outcomes of an attach or detach call.
CallOutcomes == {Ok(TRUE), Raise("QubesException")}

RECURSIVE UpdateLoop_abort(_, _, _, _)
\* Mutant of UpdateLoop: a listing that raises ends the re-read.
UpdateLoop_abort(i, dev_name, att, listing) ==
    IF i > Len(AllDomains) THEN [attachments |-> att, raised |-> "none"]
    ELSE LET d == AllDomains[i]
             r == listing[d]
         IN  IF r.ok
             THEN UpdateLoop_abort(i + 1, dev_name,
                                   IF \E x \in r.val : Str(x) = dev_name
                                   THEN att \cup {d} ELSE att,
                                   listing)
             ELSE IF IsInstance(r.exc, "QubesDaemonAccessError")
             THEN [attachments |-> att, raised |-> "none"]
             ELSE [attachments |-> att, raised |-> r.exc]

RECURSIVE UpdateLoop(_, _, _, _)
\* The loop of update_dev_attachments over AllDomains[i..]: listing[d] is
\* the outcome of d.devices[devclass].attached().
UpdateLoop(i, dev_name, att, listing) ==
    IF i > Len(AllDomains) THEN [attachments |-> att, raised |-> "none"]
    ELSE LET d == AllDomains[i]
             r == listing[d]
         IN  IF r.ok
             THEN UpdateLoop(i + 1, dev_name,
                             IF \E x \in r.val : Str(x) = dev_name
                             THEN att \cup {d} ELSE att,
                             listing)
             ELSE IF IsInstance(r.exc, "QubesDaemonAccessError")
             THEN UpdateLoop(i + 1, dev_name, att, listing)
             ELSE [attachments |-> att, raised |-> r.exc]

update_dev_attachments(device, listing) ==
    UpdateLoop(1, device.dev_name, {}, listing)

RECURSIVE DetachLoop_continue(_, _, _, _, _, _, _)
\* Mutant of DetachLoop: after a failed detach call the loop goes on to
\* the next attachment.
DetachLoop_continue(device, order, i, outcome, listing, calls, sent) ==
    IF i > Len(order)
    THEN [ok |-> TRUE, attachments |-> device.attachments, raised |-> "none",
          calls |-> calls, sent |-> sent]
    ELSE LET vm == order[i]
             id == device.backend_domain \o device.ident
             note == emit_notification("Detaching device",
                         <<"Detaching", device.description, vm>>,
                         "NORMAL", FALSE, id)
         IN  IF outcome[vm].ok
             THEN DetachLoop_continue(device, order, i + 1, outcome, listing,
                      Append(calls, Call("detach", vm, TRUE)),
                      Append(sent, note))
             ELSE LET u == update_dev_attachments(device, listing)
                      rest == DetachLoop_continue(device, order, i + 1,
                                  outcome, listing,
                                  calls \o
                                      <<Call("detach", vm, FALSE),
                                        Call("resync", NoName,
                                             u.raised = "none")>>,
                                  sent \o
                                      <<note,
                                        emit_notification("Error",
                                            <<"Detaching failed",
                                              device.description, vm>>,
                                            "HIGH", TRUE, id)>>)
                  IN  [rest EXCEPT !.ok = FALSE,
                                   !.attachments = u.attachments,
                                   !.raised = u.raised]

RECURSIVE DetachLoop(_, _, _, _, _, _, _)
\* The loop of detach_item over order[i..], an iteration order of
\* device.attachments; outcome[vm] is the outcome of the detach call.
DetachLoop(device, order, i, outcome, listing, calls, sent) ==
    IF i > Len(order)
    THEN [ok |-> TRUE, attachments |-> device.attachments, raised |-> "none",
          calls |-> calls, sent |-> sent]
    ELSE LET vm == order[i]
             id == device.backend_domain \o device.ident
             note == emit_notification("Detaching device",
                         <<"Detaching", device.description, vm>>,
                         "NORMAL", FALSE, id)
         IN  IF outcome[vm].ok
             THEN DetachLoop(device, order, i + 1, outcome, listing,
                             Append(calls, Call("detach", vm, TRUE)),
                             Append(sent, note))
             ELSE IF IsInstance(outcome[vm].exc, "QubesException")
             THEN LET u == update_dev_attachments(device, listing)
                  IN  [ok |-> FALSE, attachments |-> u.attachments,
                       raised |-> u.raised,
                       calls |-> calls \o
                           <<Call("detach", vm, FALSE),
                             Call("resync", NoName, u.raised = "none")>>,
                       sent |-> sent \o
                           <<note,
                             emit_notification("Error",
                                 <<"Detaching failed", device.description,
                                   vm>>, "HIGH", TRUE, id)>>]
             ELSE [ok |-> FALSE, attachments |-> device.attachments,
                   raised |-> outcome[vm].exc,
                   calls |-> Append(calls, Call("detach", vm, FALSE)),
                   sent |-> Append(sent, note)]

detach_item(device, order, outcome, listing) ==
    DetachLoop(device, order, 1, outcome, listing, << >>, << >>)

\* Mutant of attach_item: the attach call is made although a detach call
\* failed.
attach_item_after_failure(device, target, order, outcome, attach, listing) ==
    LET d == detach_item(device, order, outcome, listing)
        id == device.backend_domain \o device.ident
    IN  [d EXCEPT
            !.calls = Append(@, Call("attach", target, attach.ok)),
            !.sent = Append(@, emit_notification("Attaching device",
                         <<"Attaching", device.description, target>>,
                         "NORMAL", FALSE, id))]

\* Mutant of attach_item: a successful attach call is recorded in the
\* registry at once.
attach_item_optimistic(device, target, order, outcome, attach, listing) ==
    LET d == detach_item(device, order, outcome, listing)
        id == device.backend_domain \o device.ident
    IN  IF ~d.ok THEN d
        ELSE IF attach.ok
        THEN [d EXCEPT
                 !.attachments = {target},
                 !.calls = Append(@, Call("attach", target, TRUE)),
                 !.sent = Append(@, emit_notification("Attaching device",
                              <<"Attaching", device.description, target>>,
                              "NORMAL", FALSE, id))]
        ELSE LET u == update_dev_attachments(device, listing)
             IN  [ok |-> FALSE, attachments |-> u.attachments,
                  raised |-> u.raised,
                  calls |-> d.calls \o
                      <<Call("attach", target, FALSE),
                        Call("resync", NoName, u.raised = "none")>>,
                  sent |-> Append(d.sent, emit_notification("Error",
                               <<"Attaching failed", device.description,
                                 target>>, "HIGH", TRUE, id))]

\* attach is the outcome of the attach call.
attach_item(device, target, order, outcome, attach, listing) ==
    LET d == detach_item(device, order, outcome, listing)
        id == device.backend_domain \o device.ident
    IN  IF ~d.ok THEN d
        ELSE IF attach.ok
        THEN [d EXCEPT
                 !.calls = Append(@, Call("attach", target, TRUE)),
                 !.sent = Append(@, emit_notification("Attaching device",
                              <<"Attaching", device.description, target>>,
                              "NORMAL", FALSE, id))]
        ELSE LET u == update_dev_attachments(device, listing)
             IN  [ok |-> FALSE, attachments |-> u.attachments,
                  raised |-> u.raised,
                  calls |-> d.calls \o
                      <<Call("attach", target, FALSE),
                        Call("resync", NoName, u.raised = "none")>>,
                  sent |-> Append(d.sent, emit_notification("Error",
                               <<"Attaching failed", device.description,
                                 target>>, "HIGH", TRUE, id))]

\* Mutant of toggle: the item's attached state is not consulted.
toggle_always_attach(device, target, order, outcome, attach, listing) ==
    attach_item(device, target, order, outcome, attach, listing)

\* toggle of the menu item of VM target in the submenu of device.
toggle(device, target, order, outcome, attach, listing) ==
    IF target \in device.attachments
    THEN detach_item(device, order, outcome, listing)
    ELSE attach_item(device, target, order, outcome, attach, listing)

\* The orders in which a set can be iterated.
Perms(S) == {s \in [1..Cardinality(S) -> S] : Range(s) = S}

\* The DeviceInfo of a registered device.
DevInfo(dev_name) == CHOOSE x \in Universe : Str(x) = dev_name

\* The directories a re-read of dev's attachments can find: the VM it is
\* attached to, and at most one VM whose attached() query fails.
ResyncWorlds(dev) ==
    {[present |-> Universe,
      att |-> [x \in Universe |-> IF x = dev THEN a ELSE NoName], fail |-> f] :
        a \in Targets(dev) \cup {NoName},
        f \in {{}} \cup {{<<d, dev.devclass, "attached", e>>} :
                            d \in DomainSet, e \in ErrKinds}}

\* The directory of a toggle all of whose calls succeed is never read.
Unread == [present |-> Universe, att |-> [x \in Universe |-> NoName],
           fail |-> {}]

\* The attached() listings of the VMs, for the class of dev, that the
\* directories of W show.
ListingsOf(W, dev) ==
    {[d \in DomainSet |-> AttachedOutcome(w, d, dev.devclass)] : w \in W}

\* show_menu: a DomainMenu per Device of the registry, each with an item
\* per tracked VM but the device's backend.  The menu is popped up and
\* the handler returns; items are activated later.
show_menu(tracked, devs) ==
    [shown |-> TRUE, domains |-> tracked, live |-> Keys(devs),
     stale |-> << >>]

ShowMenu ==
    /\ AtLoop
    /\ menu' = show_menu(vms, devices)
    /\ held' = [p \in DOMAIN held |->
                    IF held[p] = "menu" THEN "none" ELSE held[p]]
    /\ UNCHANGED <<phase, vms, devices, devs_added, devs_removed, timers,
                   last, recent>>
    /\ UNCHANGED <<pool_warned, vms_warned, refreshed>>

\* The Device object the menu holds for key k: the registry's while the
\* registry has it, the dropped one otherwise.
MenuDevice(m, devs, k) ==
    IF k \in m.live THEN GetItem(devs, k)
    ELSE [Device(DevInfo(k)) EXCEPT !.attachments = m.stale[k]]

\* The user activates the item of a VM in a device's submenu of the menu
\* show_menu built, whatever has been handled since.  LS[dev] are the
\* listings a re-read of dev's attachments can find, CO the outcomes of
\* an attach or detach call.
ToggleIn(LS, CO) ==
    /\ AtLoop
    /\ menu.shown
    /\ \E k \in menu.live \cup DOMAIN menu.stale :
       \E target \in menu.domains \ {MenuDevice(menu, devices, k).backend_domain} :
       \E order \in Perms(MenuDevice(menu, devices, k).attachments) :
       \E outcome \in [MenuDevice(menu, devices, k).attachments ->
                          CO] :
       \E attach \in CO :
       \E listing \in
              IF (\A v \in DOMAIN outcome : outcome[v].ok) /\ attach.ok
              THEN ListingsOf({Unread}, DevInfo(k))
              ELSE LS[DevInfo(k)] :
          LET device == MenuDevice(menu, devices, k)
              r == toggle(device, target, order, outcome, attach, listing)
          IN  /\ IF k \in menu.live
                 THEN /\ devices' = [devices EXCEPT
                             ![IndexOf(devices, k)].attachments =
                                 r.attachments]
                      /\ UNCHANGED menu
                 ELSE /\ menu' = [menu EXCEPT !.stale[k] = r.attachments]
                      /\ UNCHANGED devices
              /\ last' = Ran("toggle", target, device.dev_name,
                             [stale |-> k \notin menu.live,
                              listing |-> listing, order |-> order,
                              outcome |-> outcome, attach |-> attach],
                             r.raised, << >>, << >>, r.calls, r.sent)
    /\ BuffersFollow
    /\ UNCHANGED <<phase, vms, timers, recent>>
    /\ UNCHANGED <<pool_warned, vms_warned, refreshed>>

Toggle ==
    ToggleIn([dev \in Universe |-> ListingsOf(ResyncWorlds(dev), dev)],
             CallOutcomes)

\* The loader and the events of a single VM or device, each with every
\* outcome of its queries: the two passes of the loader on every
\* directory, device-attach and device-detach of every device,
\* domain-start, domain-shutdown and domain-start-failed of every VM.
\* These events reach every registry over the three devices: every
\* order of keys, every set of the VMs a device can be attached to,
\* every tracked set.  No list
\* change, label change, timeout or use of the menu happens here: those
\* are steps of SpecLifecycle, which has every handler, of
\* SpecListChange, SpecNotifier and SpecCoordinator.
NextRegistry ==
    \/ InitializeVmData
    \/ InitializeDevData
    \/ DeviceAttached
    \/ DeviceDetached
    \/ VmStart
    \/ VmShutdown
    \/ Return
    \/ Exit

SpecRegistry == Init /\ [][NextRegistry]_vars

\* The loader on a directory without attachments or failures, then
\* device-attach and device-detach events only, with the history kept.
BareWorlds ==
    {w \in Worlds : w.fail = {} /\ \A dev \in Universe : w.att[dev] = NoName}

InitializeDevDataBare == InitializeDevDataIn(BareWorlds)

NextAttachDetach ==
    \/ InitializeVmData
    \/ InitializeDevDataBare
    \/ DeviceAttachedNoted
    \/ DeviceDetachedNoted
    \/ Return
    \/ Exit

SpecAttachDetach == Init /\ [][NextAttachDetach]_vars

\* The notifier: the loader on a directory in which every VM runs, no
\* query fails, sys-usb alone has devices and only the USB device may be
\* attached; then the device list of sys-usb changes, the USB device is
\* attached to work or detached, time passes.
AllRunning == {[d \in Plain |-> Ok(TRUE)]}

QuietWorlds ==
    {w \in Worlds :
        /\ w.fail = {}
        /\ MicDev \notin w.present
        /\ \A dev \in Universe \ {UsbDev} : w.att[dev] = NoName}

InitializeVmDataQuiet == InitializeVmDataIn(AllRunning)

InitializeDevDataQuiet == InitializeDevDataIn(QuietWorlds)

DeviceListUpdateUsb ==
    DeviceListUpdateIn({"sys-usb"}, {"usb", "block"},
                       {"QubesVMNotFoundError"})

DeviceAttachedUsb ==
    DeviceAttachedOf({UsbDev}, {Ok(TRUE)}) /\ UNCHANGED recent

DeviceDetachedUsb ==
    DeviceDetachedOf({UsbDev}, {Ok(TRUE)}) /\ UNCHANGED recent

NextNotifier ==
    \/ InitializeVmDataQuiet
    \/ InitializeDevDataQuiet
    \/ DeviceListUpdateUsb
    \/ DeviceAttachedUsb
    \/ DeviceDetachedUsb
    \/ TimeoutFires
    \/ Tick
    \/ Return

SpecNotifier == Init /\ [][NextNotifier]_vars

\* List changes: the loader on a directory in which every VM runs, no
\* query fails, the microphone of dom0 is present and attached to work
\* and the block device is attached to nothing; then device-list-change
\* events of sys-usb and of work, for every signalling class, with every
\* set of sys-usb's devices and an enumeration of any class that may
\* fail with QubesVMNotFoundError, and device-list-change:usb events of
\* sys-usb whose failing enumeration raises any error of the queries.
\* An event arrives at any time, whether the timeouts of earlier ones
\* are pending, have fired or are yet to tick.
CalmWorlds == {w \in Worlds : w.fail = {}}

ListedWorlds ==
    {w \in CalmWorlds :
        /\ MicDev \in w.present
        /\ w.att[MicDev] = "work"
        /\ w.att[BlockDev] = NoName}

InitializeDevDataListed == InitializeDevDataIn(ListedWorlds)

DeviceListUpdateAnyClass ==
    DeviceListUpdateIn({"sys-usb", "work"}, DevTypeSet,
                       {"QubesVMNotFoundError"})

DeviceListUpdateAnyError == DeviceListUpdateIn({"sys-usb"}, {"usb"}, ErrKinds)

NextListChange ==
    \/ InitializeVmDataQuiet
    \/ InitializeDevDataListed
    \/ DeviceListUpdateAnyClass
    \/ DeviceListUpdateAnyError
    \/ TimeoutFires
    \/ Tick
    \/ Return

SpecListChange == Init /\ [][NextListChange]_vars

\* The coordinator: the loader on a directory in which every VM runs, no
\* query fails and the microphone is the only device; device-attach events
\* that attach it to a further VM; shutdowns of VMs; the menu shown at any
\* point between them, and toggles of its items whose re-read finds any
\* listing at all: each VM shows the device or not, or its query raises.
MicWorlds == {w \in CalmWorlds : w.present \subseteq {MicDev}}

InitializeDevDataMic == InitializeDevDataIn(MicWorlds)

AnyListings ==
    [dev \in Universe |->
        [DomainSet -> {Ok({}), Ok({dev})} \cup Failures]]

ToggleAny == ToggleIn(AnyListings, CallOutcomes)

DeviceAttachedMic ==
    DeviceAttachedOf({MicDev}, {Ok(TRUE)}) /\ UNCHANGED recent

NextCoordinator ==
    \/ InitializeVmDataQuiet
    \/ InitializeDevDataMic
    \/ DeviceAttachedMic
    \/ VmShutdown
    \/ ShowMenu
    \/ ToggleAny
    \/ Return

SpecCoordinator == Init /\ [][NextCoordinator]_vars

\* Every handler of the program, on a directory of two devices: the
\* USB device of sys-usb and the microphone of dom0.  Events, timeouts
\* and uses of the menu come in any order; an event or a toggle may find
\* timeouts of the notifier pending.  The loader finds every VM running
\* and reads a directory without failures that holds at most the USB
\* device, attached to work or to nothing.  The events are:
\* device-attach of the microphone to work; device-detach of
\* the USB device with every outcome of is_running(), an error that
\* escapes the handler ending the program; device-list-change:usb of
\* sys-usb, which shows the USB device or nothing, its usb enumeration
\* failing with QubesVMNotFoundError or not; domain-start of a running
\* VM to which at most the USB device is attached, its usb listing
\* failing with QubesDaemonAccessError, which the handler catches, with
\* QubesVMNotFoundError, which escapes, or not at all; domain-shutdown
\* and domain-start-failed of any VM; property-set:label of sys-usb,
\* the reads of name and icon failing with QubesPropertyAccessError or
\* not; the menu shown, and the items of the USB device, registered or
\* dropped since, toggled with attach and detach calls that succeed or raise
\* QubesException, the re-read after a failed call finding the device
\* attached to any VM or to none while the listing of work fails with
\* QubesDaemonAccessError or not.
LifecycleWorlds == {w \in QuietWorlds : BlockDev \notin w.present}

InitializeDevDataLifecycle == InitializeDevDataIn(LifecycleWorlds)

DeviceDetachedUsbAny ==
    DeviceDetachedOf({UsbDev}, RunOutcomes) /\ UNCHANGED recent

DeviceListUpdateUsbOnly ==
    DeviceListUpdateOf({"sys-usb"}, {"usb"},
        [vm \in DomainSet |->
            {w \in ListWorlds(vm, {"QubesVMNotFoundError"}) :
                /\ BlockDev \notin w.present
                /\ \A f \in w.fail : f[2] = "usb"}])

VmStartUsb ==
    VmStartIn([vm \in Plain |->
                  {w \in StartWorlds(vm) :
                      /\ w.running
                      /\ \A dev \in Universe \ {UsbDev} :
                             w.att[dev] = NoName
                      /\ \A f \in w.fail :
                             /\ f[2] = "usb"
                             /\ f[4] \in {"QubesDaemonAccessError",
                                          "QubesVMNotFoundError"}}])

OnLabelChangedRefused ==
    /\ OnLabelChangedIn({"QubesPropertyAccessError"})
    /\ last'.vm = "sys-usb"

ToggleDenied ==
    /\ ToggleIn([dev \in Universe |->
                    ListingsOf({w \in ResyncWorlds(dev) :
                                   \A f \in w.fail :
                                       /\ f[1] = "work"
                                       /\ f[4] = "QubesDaemonAccessError"},
                               dev)],
                CallOutcomes)
    /\ last'.dev = Str(UsbDev)

DeviceAttachedMicWork == DeviceAttachedMic /\ last'.vm = "work"

NextLifecycle ==
    \/ InitializeVmDataQuiet
    \/ InitializeDevDataLifecycle
    \/ DeviceAttachedMicWork
    \/ DeviceDetachedUsbAny
    \/ DeviceListUpdateUsbOnly
    \/ VmStartUsb
    \/ VmShutdown
    \/ OnLabelChangedRefused
    \/ ShowMenu
    \/ ToggleDenied
    \/ TimeoutFires
    \/ Tick
    \/ Return
    \/ Exit

SpecLifecycle == Init /\ [][NextLifecycle]_vars

(***************************************************************************)
(* The disk space monitor (disk_space.py), a program of its own: it shares *)
(* nothing with the devices widget but the directory of VMs.               *)
(***************************************************************************)
\* VMUsage.check_usage for a VM all of whose volumes to check is 'private':
\* the volumes with size > 0 and usage / size > WARN_LEVEL (0.9).
check_usage(vm_state) ==
    {v \in {"private"} :
        /\ vm_state.size > 0
        /\ 10 * vm_state.usage > 9 * vm_state.size}

\* VMUsageData.__populate_vms: the running VMs with a problem volume, in
\* the order of qubes_app.domains.
problematic_vms(world) ==
    SelectSeq(AllDomains,
              LAMBDA vm : world[vm].running /\ check_usage(world[vm]) # {})

\* disk_space.emit_notification, as far as refresh_icon tells the calls
\* apart: the title and the VM the button is for.
emit_warning(title, vm) == [vm |-> vm, title |-> title]

RECURSIVE PruneLoop(_, _, _, _)
\* for vm in self.vms_warned: if vm not in currently_problematic_vms:
\* self.vms_warned.remove(vm).  order is the iteration order of the set as
\* it was when the loop began; the set iterator raises RuntimeError at the
\* step after the set has changed size, the last step included.
PruneLoop(order, i, warned, current) ==
    IF Cardinality(warned) # Len(order)
    THEN [vms_warned |-> warned, raised |-> "RuntimeError"]
    ELSE IF i > Len(order)
    THEN [vms_warned |-> warned, raised |-> "none"]
    ELSE IF order[i] \notin current
    THEN PruneLoop(order, i + 1, warned \ {order[i]}, current)
    ELSE PruneLoop(order, i + 1, warned, current)

RECURSIVE WarnLoop(_, _, _, _, _)
\* for vm in currently_problematic_vms: a VM without the feature
\* disk-space-not-notify that is not warned yet is notified and warned.
WarnLoop(current, i, warned, not_notify, sent) ==
    IF i > Len(current) THEN [vms_warned |-> warned, sent |-> sent]
    ELSE IF ~not_notify[current[i]] /\ current[i] \notin warned
    THEN WarnLoop(current, i + 1, warned \cup {current[i]}, not_notify,
                  Append(sent, emit_warning("Qube usage warning",
                                            current[i])))
    ELSE WarnLoop(current, i + 1, warned, not_notify, sent)

\* PoolUsageData.__populate_pools for one pool: the warning messages, or
\* the exception that ends it.  A pool without size is passed over; usage
\* at or above URGENT_WARN_LEVEL (0.95) gives a message; metadata usage at
\* or above it reaches the format string "{.1%}", which looks up the
\* attribute "1%" of a float and raises AttributeError.
populate_pools(pool) ==
    IF pool.size = 0
    THEN [raised |-> "none", warning_message |-> << >>]
    ELSE LET space == IF 100 * pool.usage >= 95 * pool.size
                      THEN <<"space left in pool">> ELSE << >>
         IN  IF /\ pool.metadata_size # 0
                /\ 100 * pool.metadata_usage >= 95 * pool.metadata_size
             THEN [raised |-> "AttributeError", warning_message |-> space]
             ELSE [raised |-> "none", warning_message |-> space]

\* refresh_icon: pool is what the directory shows of the storage pool,
\* vm_warning is VMUsageData.problematic_vms.  The pools are read first.
refresh_icon(pw, warned, pool, vm_warning, order, not_notify) ==
    LET p == populate_pools(pool)
        pool_warning == p.warning_message # << >>
        sent == IF pool_warning /\ ~pw
                THEN <<emit_warning("Disk usage warning!", NoName)>>
                ELSE << >>
        pruned == PruneLoop(order, 1, warned, Range(vm_warning))
        w == WarnLoop(vm_warning, 1, pruned.vms_warned, not_notify, sent)
    IN  IF p.raised # "none"
        THEN [pool_warned |-> pw, vms_warned |-> warned, raised |-> p.raised,
              sent |-> << >>]
        ELSE IF vm_warning = << >>
        THEN [pool_warned |-> pool_warning, vms_warned |-> {},
              raised |-> "none", sent |-> sent]
        ELSE IF pruned.raised # "none"
        THEN [pool_warned |-> pool_warning, vms_warned |-> pruned.vms_warned,
              raised |-> pruned.raised, sent |-> sent]
        ELSE [pool_warned |-> pool_warning, vms_warned |-> w.vms_warned,
              raised |-> "none", sent |-> w.sent]

\* What the directory can show of a VM: whether it runs, and the size and
\* usage of its private volume.
UsageWorlds ==
    [DomainSet -> {[running |-> FALSE, size |-> 100, usage |-> 95],
                   [running |-> TRUE, size |-> 100, usage |-> 50],
                   [running |-> TRUE, size |-> 100, usage |-> 95]}]

\* What the directory can show of the storage pool: size and usage of
\* its data and of its metadata (metadata_size 0: no such detail).
PoolWorlds ==
    {[size |-> 0, usage |-> 0, metadata_size |-> 0, metadata_usage |-> 0],
     [size |-> 100, usage |-> 50, metadata_size |-> 0, metadata_usage |-> 0],
     [size |-> 100, usage |-> 96, metadata_size |-> 0, metadata_usage |-> 0],
     [size |-> 100, usage |-> 50, metadata_size |-> 100,
      metadata_usage |-> 50],
     [size |-> 100, usage |-> 50, metadata_size |-> 100,
      metadata_usage |-> 96]}

\* The first call in __init__ and every firing of the 120 s timeout,
\* which goes on for as long as the callback returns True.
RefreshIcon ==
    /\ refreshed.raised = "none"
    /\ \E world \in UsageWorlds : \E pool \in PoolWorlds :
       \E not_notify \in [DomainSet -> BOOLEAN] :
       \E order \in Perms(vms_warned) :
          LET vm_warning == problematic_vms(world)
              r == refresh_icon(pool_warned, vms_warned, pool,
                                vm_warning, order, not_notify)
          IN  /\ pool_warned' = r.pool_warned
              /\ vms_warned' = r.vms_warned
              /\ refreshed' = [op |-> "refresh_icon",
                               inp |-> [pool_warned |-> pool_warned,
                                        order |-> order,
                                        not_notify |-> not_notify,
                                        pool |-> pool,
                                        vm_warning |-> vm_warning],
                               raised |-> r.raised, sent |-> r.sent]
    /\ UNCHANGED <<phase, vms, devices, devs_added, devs_removed, held,
                   timers, last, recent>>
    /\ UNCHANGED menu

NextDiskSpace == RefreshIcon

SpecDiskSpace == Init /\ [][NextDiskSpace]_vars

\* The whole program.
Next ==
    \/ InitializeVmData
    \/ InitializeDevData
    \/ DeviceAttached
    \/ DeviceDetached
    \/ DeviceListUpdate
    \/ VmStart
    \/ VmShutdown
    \/ OnLabelChanged
    \/ ShowMenu
    \/ Toggle
    \/ TimeoutFires
    \/ Tick
    \/ Return
    \/ Exit

Spec == Init /\ [][Next]_vars

(***************************************************************************)
(* Properties.                                                             *)
(***************************************************************************)
\* The attachment set the registry holds for key k (none if k is absent).
AttachmentsOf(k) == Had(devices, k)

\* The attachment set of the Device object the last toggle acted on: the
\* registry's record, or the one the menu still holds after a list change
\* dropped it from the registry.
Toggled ==
    IF last.inp.stale THEN menu.stale[last.dev] ELSE AttachmentsOf(last.dev)

\* C1: after any sequence of device-attach and device-detach events of
\* running VMs and devices of the fixed classes, a device's attachment set
\* is exactly the set of VMs whose most recent event for that device was an
\* attach (duplicated events included).
C1_LastEventWins ==
    phase = "run" =>
        \A dev \in Universe : \A vm \in DomainSet :
            vm \in AttachmentsOf(Str(dev)) <=>
                /\ <<Str(dev), vm>> \in DOMAIN recent
                /\ recent[<<Str(dev), vm>>] = "device_attached"

\* C1 witness: a device attached to two VMs was detached from one of them
\* again.
C1_Witness ==
    /\ AttachmentsOf(Str(MicDev)) = {"work"}
    /\ <<Str(MicDev), "sys-usb">> \in DOMAIN recent
    /\ recent[<<Str(MicDev), "sys-usb">>] = "device_detached"
    /\ recent[<<Str(MicDev), "work">>] = "device_attached"
    /\ last.op = "device_attached"
    /\ last.inp.run = Ok(TRUE)

\* C2: a second domain-shutdown of the same VM right after the first
\* changes nothing in the registry and raises no error.
C2_ShutdownIdempotent ==
    last.op = "vm_shutdown" =>
        LET again == vm_shutdown(vms, devices, last.vm)
        IN  /\ again.vms = vms
            /\ again.devices = devices
            /\ again.raised = "none"
            /\ last.raised = "none"

\* C2 witness: the first shutdown removed a tracked VM that a device
\* listed.
C2_Witness ==
    /\ last.op = "vm_shutdown"
    /\ last.inp.event = "domain-shutdown"
    /\ last.inp.tracked
    /\ last.inp.listed # {}

\* C3: right after domain-shutdown or domain-start-failed of v, v is not
\* tracked and no device lists v.
C3_ShutdownPrunes ==
    last.op = "vm_shutdown" =>
        /\ last.vm \notin vms
        /\ \A i \in DOMAIN devices : last.vm \notin devices[i].attachments

\* C3 witness: domain-start-failed of a tracked VM that two devices
\* listed.
C3_Witness ==
    /\ last.op = "vm_shutdown"
    /\ last.inp.event = "domain-start-failed"
    /\ last.inp.tracked
    /\ Cardinality(last.inp.listed) >= 2
    /\ \E i \in DOMAIN devices : devices[i].attachments # {}

\* The notification of the last run with identity id, if it sent one.
SentAs(id) == {i \in DOMAIN last.sent : last.sent[i].id = id}

\* The descriptions of the devices of buf listed in ascending order, one
\* per line.
SortedListing(buf) ==
    {Join([i \in DOMAIN buf |-> buf[p[i]].description]) :
        p \in {q \in Perms(DOMAIN buf) :
                  \A i \in DOMAIN buf : \A j \in DOMAIN buf :
                      i < j => ~StrLess(buf[q[j]].description,
                                        buf[q[i]].description)}}

\* The pending timeouts of direction dir for device dev_name.
PendingFor(dir, dev_name) ==
    {i \in DOMAIN timers : timers[i].dir = dir /\ timers[i].dev = dev_name}

\* C4: a list change that inserts into a VM's added-buffer sends one
\* notification under the VM's added identity whose body lists every
\* device the buffer then holds (an earlier A and the new B alike) sorted by
\* description; every buffered device has exactly one pending timeout with
\* at most the window left, no buffer entry is empty, and when a device's
\* timeout has fired the device is in no added-buffer.
C4_DebounceCoalescing ==
    /\ (last.op = "device_list_update" /\ last.added # << >>) =>
           /\ last.vm \in DOMAIN devs_added
           /\ \A i \in DOMAIN last.added :
                  \E j \in DOMAIN devs_added[last.vm] :
                      devs_added[last.vm][j].dev_name = last.added[i]
           /\ Cardinality(SentAs("device-added-" \o last.vm)) = 1
           /\ \A i \in SentAs("device-added-" \o last.vm) :
                  last.sent[i].body \in SortedListing(devs_added[last.vm])
    /\ \A vm \in DOMAIN devs_added :
           /\ devs_added[vm] # << >>
           /\ \A j \in DOMAIN devs_added[vm] :
                  /\ Cardinality(PendingFor("added",
                                            devs_added[vm][j].dev_name)) = 1
                  /\ \A i \in PendingFor("added", devs_added[vm][j].dev_name) :
                         timers[i].left \in 0..WindowTicks
    /\ last.op = "_remove_notify_added" =>
           /\ \A vm \in DOMAIN devs_added :
                  \A j \in DOMAIN devs_added[vm] :
                      devs_added[vm][j].dev_name # last.dev
           /\ last.sent = << >>

\* C4 witness: the block device entered sys-usb's added-buffer one tick
\* after the USB device did; the body lists "KB" before "W".
C4_Witness ==
    /\ last.op = "device_list_update"
    /\ last.vm = "sys-usb"
    /\ last.added = <<Str(BlockDev)>>
    /\ "sys-usb" \in DOMAIN devs_added
    /\ devs_added["sys-usb"] = <<Device(UsbDev), Device(BlockDev)>>
    /\ \E i \in PendingFor("added", Str(UsbDev)) : timers[i].left = 1
    /\ \E i \in PendingFor("added", Str(BlockDev)) :
           timers[i].left = WindowTicks
    /\ \E i \in DOMAIN last.sent :
           last.sent[i].body = <<75, 66, 10, 87>>

\* The places in the calls of the last toggle of a call op (for vm).
CallsOf(op) == {i \in DOMAIN last.calls : last.calls[i].op = op}

CallsFor(op, vm) == {i \in CallsOf(op) : last.calls[i].vm = vm}

\* The VMs whose attached() listing, as read by the last toggle, shows the
\* toggled device.
Listed ==
    {d \in DomainSet :
        /\ last.inp.listing[d].ok
        /\ \E x \in last.inp.listing[d].val : Str(x) = last.dev}

\* C5: a toggle to y of a device attached to x alone makes exactly one
\* detach call for x, before any attach call, which is for y; if the detach
\* call fails there is no attach call and the attachments are read again
\* from the directory.
C5_DetachThenAttach ==
    (/\ last.op = "toggle"
     /\ Len(last.inp.order) = 1
     /\ last.vm \notin Range(last.inp.order)) =>
        LET x == last.inp.order[1]
        IN  /\ Cardinality(CallsFor("detach", x)) = 1
            /\ CallsOf("detach") = CallsFor("detach", x)
            /\ CallsOf("attach") = CallsFor("attach", last.vm)
            /\ \A i \in CallsOf("detach") : \A j \in CallsOf("attach") :
                  i < j
            /\ (\E i \in CallsOf("detach") : ~last.calls[i].ok) =>
                  /\ CallsOf("attach") = {}
                  /\ CallsOf("resync") # {}
                  /\ last.raised = "none" => Toggled = Listed

\* C5 witness: the detach call for x failed and the re-read found the
\* device attached to y.
C5_Witness ==
    /\ last.op = "toggle"
    /\ last.inp.order = <<"work">>
    /\ last.vm = "sys-usb"
    /\ last.calls = <<Call("detach", "work", FALSE),
                      Call("resync", NoName, TRUE)>>
    /\ Toggled = {"sys-usb"}

\* C5 second case, reached as well: the detach call succeeded and the
\* attach call followed it.
C5_WitnessAttach ==
    /\ last.op = "toggle"
    /\ last.calls = <<Call("detach", "work", TRUE),
                      Call("attach", "sys-usb", TRUE)>>

\* The case of C6: device-detach(work, D) of the running VM work, for the
\* USB device D that was attached to work alone.
DetachCase(l) ==
    /\ l.op = "device_detached"
    /\ l.vm = "work"
    /\ l.dev = Str(UsbDev)
    /\ l.inp.run = Ok(TRUE)
    /\ l.inp.had = {"work"}

\* C6 as stated: after device-detach(work, D), D's attachment set is empty
\* and the removed-buffer of work contains D.
C6_DetachFeedsRemovedBuffer ==
    DetachCase(last) =>
        /\ AttachmentsOf(Str(UsbDev)) = {}
        /\ "work" \in DOMAIN devs_removed
        /\ Contains(devs_removed["work"], Str(UsbDev))

\* The keys of the devices of a buffer, per VM and in order.
Names(buf) ==
    [v \in DOMAIN buf |->
        [i \in DOMAIN buf[v] |-> buf[v][i].dev_name]]

\* Buffer new has the entries of buffer old, in the same places, but that
\* an entry of device dev_name may show an empty attachment set.
SameButDetached(new, old, dev_name) ==
    /\ Names(new) = Names(old)
    /\ \A v \in DOMAIN old : \A i \in DOMAIN old[v] :
           \/ new[v][i] = old[v][i]
           \/ /\ old[v][i].dev_name = dev_name
              /\ new[v][i] = [old[v][i] EXCEPT !.attachments = {}]

\* C6, amended: device-detach(work, D) empties D's attachment set, leaves
\* the pending timeouts as they were and both buffers with the same
\* devices in the same places, a buffered D that is the registry's object
\* showing the emptied set, and sends no notification; the devices of
\* the removed-buffer change by device-list-change and by its timeouts
\* alone.  When a removed-buffer timeout fires the device leaves the
\* buffer, no entry stays empty and no notification is sent.
C6_DetachLeavesBuffers ==
    [][/\ DetachCase(last') /\ last.op = "idle" =>
              /\ Had(devices', Str(UsbDev)) = {}
              /\ SameButDetached(devs_added', devs_added, Str(UsbDev))
              /\ SameButDetached(devs_removed', devs_removed, Str(UsbDev))
              /\ \A v \in DOMAIN devs_added' :
                 \A i \in DOMAIN devs_added'[v] :
                     /\ devs_added'[v][i].dev_name = Str(UsbDev)
                     /\ held[<<"added", Str(UsbDev)>>] = "registry"
                     => devs_added'[v][i].attachments = {}
              /\ UNCHANGED timers
              /\ last'.sent = << >>
       /\ Names(devs_removed') # Names(devs_removed) =>
              \/ /\ last'.op = "device_list_update"
                 /\ last'.removed # << >>
              \/ last'.op = "_remove_notify_removed"
       /\ last'.op = "_remove_notify_removed" /\ last.op = "idle" =>
              /\ \A vm \in DOMAIN devs_removed' :
                     /\ devs_removed'[vm] # << >>
                     /\ ~Contains(devs_removed'[vm], last'.dev)
              /\ last'.sent = << >>]_vars

\* C6 witness: D, the registry's object in the added-buffer of sys-usb, was
\* attached to work and detached again while the removed-buffer of
\* sys-usb held the block device.
C6_Witness ==
    /\ DetachCase(last)
    /\ AttachmentsOf(Str(UsbDev)) = {}
    /\ "sys-usb" \in DOMAIN devs_removed
    /\ devs_removed["sys-usb"] = <<Device(BlockDev)>>
    /\ "sys-usb" \in DOMAIN devs_added
    /\ devs_added["sys-usb"] = <<Device(UsbDev)>>
    /\ held[<<"added", Str(UsbDev)>>] = "registry"
    /\ timers # << >>

\* The devices a successful enumeration of the last list change found.
Enumerated ==
    UNION {{Str(last.inp.listing[c].val[i]) :
                i \in DOMAIN last.inp.listing[c].val} :
           c \in {k \in DevTypeSet : last.inp.listing[k].ok}}

\* C7: when the enumeration of vm succeeds and omits exactly one known
\* device D of vm, the registry does not hold D's key afterwards and the
\* removed set handed to the notifier is exactly D.
C7_ListChangeRemoval ==
    (/\ last.op = "device_list_update"
     /\ \A c \in DevTypeSet : last.inp.listing[c].ok) =>
        \A D \in last.inp.known :
            last.inp.known \ Enumerated = {D} =>
                /\ D \notin Keys(devices)
                /\ last.removed = <<D>>
                /\ last.raised = "none"

\* C7 witness: sys-usb had the USB and the block device and now lists the
\* block device alone.
C7_Witness ==
    /\ last.op = "device_list_update"
    /\ last.vm = "sys-usb"
    /\ last.inp.event = "device-list-change:usb"
    /\ last.inp.known = {Str(UsbDev), Str(BlockDev)}
    /\ \A c \in DevTypeSet : last.inp.listing[c].ok
    /\ Enumerated = {Str(BlockDev)}
    /\ last.removed = <<Str(UsbDev)>>
    /\ Keys(devices) = {Str(BlockDev)}

\* C8: a failing devices or attached listing of one VM and class does not
\* stop the loader: nothing escapes, the failing listing contributes no
\* device and no attachment, every other listing is loaded.
C8_LoaderTolerant ==
    last.op = "initialize_dev_data" =>
        LET p == last.inp.present
            a == last.inp.attached
        IN  /\ last.raised = "none"
            /\ phase = "run"
            /\ \A d \in DomainSet : \A c \in DevTypeSet :
                  IF p[d][c].ok
                  THEN \A dev \in Range(p[d][c].val) :
                          Str(dev) \in Keys(devices)
                  ELSE \A i \in DOMAIN devices :
                          ~(/\ devices[i].backend_domain = d
                            /\ devices[i].devclass = c)
            /\ \A d \in DomainSet : \A c \in DevTypeSet :
                  IF a[d][c].ok
                  THEN \A dev \in a[d][c].val :
                          Str(dev) \in Keys(devices) =>
                              d \in AttachmentsOf(Str(dev))
                  ELSE \A i \in DOMAIN devices :
                          devices[i].devclass = c =>
                              d \notin devices[i].attachments

\* C8 witness: the first listing of the pass failed and devices of other
\* VMs were loaded with an attachment.
C8_Witness ==
    /\ last.op = "initialize_dev_data"
    /\ ~last.inp.present["dom0"]["block"].ok
    /\ Keys(devices) = {Str(UsbDev), Str(BlockDev), Str(MicDev)}
    /\ AttachmentsOf(Str(UsbDev)) = {"work"}

\* C8 witness of the other kind of failure: an attached() listing failed.
C8_WitnessAttached ==
    /\ last.op = "initialize_dev_data"
    /\ ~last.inp.attached["work"]["usb"].ok
    /\ AttachmentsOf(Str(MicDev)) = {"work"}

\* C9 as claimed: no handler of the reconciler and no loader pass lets an
\* error of an administration query escape.
C9_NothingEscapes ==
    last.op \in {"initialize_vm_data", "initialize_dev_data",
                 "device_attached", "device_detached", "device_list_update",
                 "vm_start", "vm_shutdown", "on_label_changed"} =>
        last.raised = "none"

\* C10: a toggle all of whose external calls succeed leaves the registry
\* as it was, and so the attachment set of a device the menu alone still
\* holds.
C10_SuccessKeepsRegistry ==
    [][(/\ last'.op = "toggle"
        /\ \A i \in DOMAIN last'.calls : last'.calls[i].ok) =>
            /\ devices' = devices
            /\ vms' = vms
            /\ menu'.stale = menu.stale]_vars

\* C10 witness: a detach call and an attach call, both successful, and
\* the device still recorded as attached to the VM it was detached from.
C10_Witness ==
    /\ last.op = "toggle"
    /\ last.calls = <<Call("detach", "work", TRUE),
                      Call("attach", "sys-usb", TRUE)>>
    /\ Toggled = {"work"}

\* The buffer of direction dir.
BufferOf(dir) == IF dir = "added" THEN devs_added ELSE devs_removed

\* The delta of direction dir the last list change handed to the notifier.
DeltaOf(dir) == IF dir = "added" THEN last.added ELSE last.removed

\* C11: a list change that hands devices of direction dir to the notifier
\* sends exactly one notification under the identity "device-<dir>-<vm>",
\* not flagged as an error, whose body lists every device the (dir, vm)
\* buffer then holds in ascending order of description; it sends nothing
\* under any other identity, so one run sends at most one notification per
\* direction.
C11_OneNotePerInsertion ==
    last.op = "device_list_update" =>
        /\ \A dir \in {"added", "removed"} :
               LET id == "device-" \o dir \o "-" \o last.vm
               IN  IF DeltaOf(dir) = << >>
                   THEN SentAs(id) = {}
                   ELSE /\ last.vm \in DOMAIN BufferOf(dir)
                        /\ \A i \in DOMAIN DeltaOf(dir) :
                               Contains(BufferOf(dir)[last.vm],
                                        DeltaOf(dir)[i])
                        /\ Cardinality(SentAs(id)) = 1
                        /\ \A i \in SentAs(id) :
                               /\ last.sent[i].body \in
                                      SortedListing(BufferOf(dir)[last.vm])
                               /\ ~last.sent[i].error
        /\ \A i \in DOMAIN last.sent :
               last.sent[i].id \in {"device-added-" \o last.vm,
                                    "device-removed-" \o last.vm}

\* C11 witness: one list change re-added the block device and removed the
\* USB device while the removed-buffer still held the block device: two
\* notifications, the removed one listing "KB" before "W".
C11_Witness ==
    /\ last.op = "device_list_update"
    /\ last.added = <<Str(BlockDev)>>
    /\ last.removed = <<Str(UsbDev)>>
    /\ "sys-usb" \in DOMAIN devs_removed
    /\ devs_removed["sys-usb"] = <<Device(BlockDev), Device(UsbDev)>>
    /\ Len(last.sent) = 2
    /\ last.sent[2].id = "device-removed-sys-usb"
    /\ last.sent[2].body = <<75, 66, 10, 87>>

\* C12: after the loader's VM pass the tracked set is exactly the VMs that
\* are no AdminVM and whose is_running() query returned True; a failing
\* query passes its VM over, the pass goes on and nothing escapes.
C12_TrackedAfterVmPass ==
    last.op = "initialize_vm_data" =>
        /\ vms = {d \in DomainSet :
                     /\ Klass(d) # "AdminVM"
                     /\ last.inp[d] = Ok(TRUE)}
        /\ last.raised = "none"
        /\ phase = "vms"

\* C12 witness: the query of sys-usb, asked first, failed because the VM
\* had disappeared, and work, asked after it, is tracked.
C12_Witness ==
    /\ last.op = "initialize_vm_data"
    /\ last.inp["sys-usb"] = Raise("QubesVMNotFoundError")
    /\ last.inp["work"] = Ok(TRUE)
    /\ vms = {"work"}

\* C13 as claimed: a device-detach event for a key the registry does not
\* hold, and a domain-shutdown (or domain-start-failed) event for a VM
\* that is not tracked and that no device lists, leave the tracked set
\* and the device records as they were and raise no error, whatever
\* is_running() does.
C13_AbsentTargetNoOp ==
    [][/\ (/\ last'.op = "device_detached"
           /\ last.op = "idle"
           /\ last'.dev \notin Keys(devices)) =>
              /\ vms' = vms
              /\ devices' = devices
              /\ last'.raised = "none"
       /\ (/\ last'.op = "vm_shutdown"
           /\ last.op = "idle"
           /\ last'.vm \notin vms
           /\ \A i \in DOMAIN devices :
                  last'.vm \notin devices[i].attachments) =>
              /\ vms' = vms
              /\ devices' = devices
              /\ last'.raised = "none"]_vars

\* What does hold of these events: the registry is left as it was, the
\* shutdown raises nothing, and the detach raises nothing once
\* is_running() has answered or has been refused with a
\* QubesPropertyAccessError.
AbsentTargetKeepsRegistry ==
    [][/\ (/\ last'.op = "device_detached"
           /\ last.op = "idle"
           /\ last'.dev \notin Keys(devices)) =>
              /\ vms' = vms
              /\ devices' = devices
              /\ (\/ last'.inp.run.ok
                  \/ last'.inp.run = Raise("QubesPropertyAccessError")) =>
                     last'.raised = "none"
       /\ (/\ last'.op = "vm_shutdown"
           /\ last.op = "idle"
           /\ last'.vm \notin vms
           /\ \A i \in DOMAIN devices :
                  last'.vm \notin devices[i].attachments) =>
              /\ vms' = vms
              /\ devices' = devices
              /\ last'.raised = "none"]_vars

\* The failing case of C13: the device-detach of a device the registry
\* does not hold, for a VM that no longer exists, has raised.
C13_Escaped ==
    /\ last.op = "device_detached"
    /\ last.dev \notin Keys(devices)
    /\ last.inp.run = Raise("QubesVMNotFoundError")
    /\ last.raised = "QubesVMNotFoundError"

\* C13 witness: a running VM's device-detach for a device the registry,
\* which holds other devices with attachments, does not know.
C13_Witness ==
    /\ last.op = "device_detached"
    /\ last.inp.run = Ok(TRUE)
    /\ last.dev \notin Keys(devices)
    /\ last.raised = "none"
    /\ vms # {}
    /\ \E i \in DOMAIN devices : devices[i].attachments # {}

\* C13 second case, reached as well: domain-shutdown of a VM that is not
\* tracked and that no device listed.
C13_WitnessShutdown ==
    /\ last.op = "vm_shutdown"
    /\ ~last.inp.tracked
    /\ last.inp.listed = {}
    /\ vms # {}
    /\ devices # << >>

\* The places of device dev_name in the buffers of direction dir.
PlacesIn(dir, dev_name) ==
    UNION {{<<vm, j>> : j \in {k \in DOMAIN BufferOf(dir)[vm] :
                                  BufferOf(dir)[vm][k].dev_name = dev_name}} :
           vm \in DOMAIN BufferOf(dir)}

\* C14: in each direction a device is buffered if and only if exactly one
\* timeout for it is pending, and no device without a buffer place has
\* one; no buffer holds a device twice; no VM key maps to an empty list;
\* right after a timeout fired its device is in no buffer of its direction.
C14_BufferTimerBijection ==
    /\ \A dir \in {"added", "removed"} :
           /\ \A dev \in Universe :
                  /\ Cardinality(PlacesIn(dir, Str(dev))) \in {0, 1}
                  /\ Cardinality(PendingFor(dir, Str(dev))) =
                         Cardinality(PlacesIn(dir, Str(dev)))
           /\ \A i \in DOMAIN timers :
                  timers[i].dir = dir => PlacesIn(dir, timers[i].dev) # {}
           /\ \A vm \in DOMAIN BufferOf(dir) : BufferOf(dir)[vm] # << >>
    /\ last.op = "_remove_notify_added" =>
           PlacesIn("added", last.dev) = {}
    /\ last.op = "_remove_notify_removed" =>
           PlacesIn("removed", last.dev) = {}

\* C14 witness: the USB device, still in the added-buffer from an earlier
\* list change and in the removed-buffer since, was enumerated anew: it
\* is handed to the notifier again while its first timeout is pending.
C14_Witness ==
    /\ last.op = "device_list_update"
    /\ last.added = <<Str(UsbDev)>>
    /\ PlacesIn("removed", Str(UsbDev)) # {}
    /\ \E i \in PendingFor("added", Str(UsbDev)) :
           timers[i].left < WindowTicks

\* The device an attach or detach event named by key dev_name.
EventInfo(dev_name) == CHOOSE x \in EventDevices : Str(x) = dev_name

\* The event of the handler run l is one device_attached applies: the VM
\* reported running and the device is of a class of DEV_TYPES.
Applies(l) ==
    /\ l.inp.run = Ok(TRUE)
    /\ EventInfo(l.dev).devclass \in DevTypeSet

\* C15: a device-attach event leaves the registry as it was when the VM
\* reports not running, the device's class is outside DEV_TYPES or the
\* running-state query raises; otherwise a device with an unknown key is
\* inserted last with the VM as its only attachment, a known device keeps
\* its record and place and gains the VM, and nothing else changes.
C15_AttachFrame ==
    [][(last'.op = "device_attached" /\ last.op = "idle") =>
          /\ vms' = vms
          /\ IF ~Applies(last')
             THEN devices' = devices
             ELSE IF last'.dev \in Keys(devices)
             THEN /\ DOMAIN devices' = DOMAIN devices
                  /\ \A i \in DOMAIN devices :
                         devices'[i] =
                            IF devices[i].dev_name = last'.dev
                            THEN [devices[i] EXCEPT
                                     !.attachments = @ \cup {last'.vm}]
                            ELSE devices[i]
             ELSE devices' =
                     Append(devices,
                            [Device(EventInfo(last'.dev)) EXCEPT
                                !.attachments = {last'.vm}])
          /\ Applies(last') => last'.raised = "none"]_vars

\* C15 witness: the microphone, already attached to sys-usb, is attached
\* to work: its record gains work and keeps sys-usb.
C15_Witness ==
    /\ last.op = "device_attached"
    /\ Applies(last)
    /\ last.dev = Str(MicDev)
    /\ last.vm = "work"
    /\ last.inp.had = {"sys-usb"}
    /\ AttachmentsOf(Str(MicDev)) = {"sys-usb", "work"}

\* C15 other case, reached as well: an event for a device of class pci
\* from a running VM.
C15_WitnessIgnored ==
    /\ last.op = "device_attached"
    /\ last.dev = Str(PciDev)
    /\ last.inp.run = Ok(TRUE)
    /\ devices # << >>

\* The keys of the registered devices whose backend is vm.
KeysOf(vm) ==
    {devices[i].dev_name :
        i \in {j \in DOMAIN devices : devices[j].backend_domain = vm}}

\* C16: after a device-list-change of vm whose enumeration succeeds, for
\* whichever class the event was signalled, the registry's keys of vm are
\* exactly the devices enumerated over all classes, the added delta is
\* exactly the enumerated devices the registry did not hold and the removed
\* delta exactly vm's devices no longer enumerated, each once.
C16_ListChangeDelta ==
    (/\ last.op = "device_list_update"
     /\ \A c \in DevTypeSet : last.inp.listing[c].ok) =>
        /\ KeysOf(last.vm) = Enumerated
        /\ Range(last.added) = Enumerated \ last.inp.known
        /\ Len(last.added) = Cardinality(Range(last.added))
        /\ Range(last.removed) = last.inp.known \ Enumerated
        /\ Len(last.removed) = Cardinality(Range(last.removed))
        /\ last.raised = "none"

\* C16 witness: an event signalled for class mic on sys-usb, where the USB
\* device was known and the block device is enumerated instead, while a
\* timeout of an earlier list change is pending.
C16_Witness ==
    /\ last.op = "device_list_update"
    /\ last.vm = "sys-usb"
    /\ last.inp.event = "device-list-change:mic"
    /\ last.inp.known = {Str(UsbDev)}
    /\ \A c \in DevTypeSet : last.inp.listing[c].ok
    /\ Enumerated = {Str(BlockDev)}
    /\ last.added = <<Str(BlockDev)>>
    /\ last.removed = <<Str(UsbDev)>>
    /\ KeysOf("sys-usb") = {Str(BlockDev)}
    /\ \E i \in DOMAIN timers : timers[i].left < WindowTicks

\* C17: when the enumeration of a device-list-change of vm raises for some
\* class, the registry holds no device of vm afterwards, the removed delta
\* is exactly the devices of vm it held, each once, the added delta is
\* empty and nothing escapes.
C17_FailedEnumerationEmpties ==
    (/\ last.op = "device_list_update"
     /\ \E c \in DevTypeSet : ~last.inp.listing[c].ok) =>
        /\ KeysOf(last.vm) = {}
        /\ Range(last.removed) = last.inp.known
        /\ Len(last.removed) = Cardinality(last.inp.known)
        /\ last.added = << >>
        /\ last.raised = "none"

\* C17 witness: the listing of class mic, the last one, failed because
\* the VM had disappeared, after the block listing had shown a device the
\* registry did not hold; the known USB device is removed, nothing added.
\* A timeout of an earlier list change is pending.
C17_Witness ==
    /\ last.op = "device_list_update"
    /\ last.vm = "sys-usb"
    /\ last.inp.listing["mic"] = Raise("QubesVMNotFoundError")
    /\ last.inp.listing["block"] = Ok(<<BlockDev>>)
    /\ last.inp.known = {Str(UsbDev)}
    /\ last.removed = <<Str(UsbDev)>>
    /\ Str(BlockDev) \notin Keys(devices)
    /\ \E i \in DOMAIN timers : timers[i].left < WindowTicks

\* C18 as claimed: a domain-start of vm one of whose attached() listings
\* raises lets nothing escape, tracks vm, and adds vm to no device's
\* attachment set, the classes listed before the failing one included.
C18_FailedStartLeavesUnset ==
    [][(/\ last'.op = "vm_start"
        /\ last.op = "idle"
        /\ \E c \in DevTypeSet : ~last'.inp.attached[c].ok) =>
            /\ last'.raised = "none"
            /\ last'.vm \in vms'
            /\ DOMAIN devices' = DOMAIN devices
            /\ \A i \in DOMAIN devices :
                   last'.vm \in devices'[i].attachments =>
                       last'.vm \in devices[i].attachments]_vars

\* C18, the part about attachments alone, for the failures vm_start
\* catches: no device gains vm although a listing raised a
\* QubesDaemonAccessError.  Violated as well: the classes listed before
\* the failing one keep what they added.
C18_CaughtFailureLeavesUnset ==
    [][(/\ last'.op = "vm_start"
        /\ last.op = "idle"
        /\ last'.raised = "none"
        /\ \E c \in DevTypeSet : ~last'.inp.attached[c].ok) =>
            \A i \in DOMAIN devices :
                last'.vm \in devices'[i].attachments =>
                    last'.vm \in devices[i].attachments]_vars

\* The last toggle meant to attach, its detach calls succeeded and its
\* attach call failed.
AttachFailed ==
    /\ last.op = "toggle"
    /\ last.vm \notin Range(last.inp.order)
    /\ \A v \in DOMAIN last.inp.outcome : last.inp.outcome[v].ok
    /\ ~last.inp.attach.ok

\* Every listing of the last toggle's re-read that raised, raised an
\* access error.
AccessErrorsOnly ==
    \A d \in DomainSet :
        \/ last.inp.listing[d].ok
        \/ last.inp.listing[d].exc \in {"QubesDaemonAccessError",
                                         "QubesPropertyAccessError"}

\* C19: when the attach call of a toggle fails, one notification flagged
\* as an error is sent, the failed call is followed by a re-read, and,
\* the listings that raise raising access errors, the device's attachment
\* set is afterwards exactly the set of VMs whose attached() listing shows
\* the device (the target among them only if its listing shows it) and
\* nothing escapes.
C19_AttachFailureResync ==
    AttachFailed =>
        /\ Cardinality({i \in DOMAIN last.sent : last.sent[i].error}) = 1
        /\ Cardinality(CallsFor("attach", last.vm)) = 1
        /\ \A i \in CallsOf("attach") : \E j \in CallsOf("resync") : i < j
        /\ AccessErrorsOnly =>
               /\ Toggled = Listed
               /\ last.raised = "none"

\* C19 witness: the microphone was detached from sys-usb, the attach call
\* for work failed, and the re-read found dom0's listing refused, the
\* device still listed by sys-usb and not by work.
C19_Witness ==
    /\ AttachFailed
    /\ last.vm = "work"
    /\ last.inp.order = <<"sys-usb">>
    /\ last.inp.listing["dom0"] = Raise("QubesDaemonAccessError")
    /\ last.inp.listing["sys-usb"] = Ok({MicDev})
    /\ last.inp.listing["work"] = Ok({})
    /\ Toggled = {"sys-usb"}

\* The detach calls of the last toggle, in the order they were made.
DetachCalls == SelectSeq(last.calls, LAMBDA c : c.op = "detach")

\* The places in the iteration order of the last toggle whose detach call
\* fails.
FailingPlaces ==
    {i \in DOMAIN last.inp.order : ~last.inp.outcome[last.inp.order[i]].ok}

\* C20: the detach calls of a toggle on a device with attachment set S go
\* to the VMs of S in iteration order, one call per VM at most, up to and
\* including the first call that fails; after a failed call there is no
\* further detach call, no attach call and no second call for the same
\* VM, and exactly one notification flagged as an error is sent.
C20_DetachAllAborts ==
    (last.op = "toggle" /\ last.inp.order # << >>) =>
        LET made == IF FailingPlaces = {} THEN Len(last.inp.order)
                    ELSE CHOOSE i \in FailingPlaces :
                             \A j \in FailingPlaces : i <= j
        IN  /\ Len(DetachCalls) = made
            /\ \A k \in 1..made :
                   /\ DetachCalls[k].vm = last.inp.order[k]
                   /\ DetachCalls[k].ok = last.inp.outcome[last.inp.order[k]].ok
            /\ \A v \in DomainSet : Cardinality(CallsFor("detach", v)) <= 1
            /\ FailingPlaces # {} =>
                   /\ CallsOf("attach") = {}
                   /\ \A i \in CallsOf("detach") :
                          ~last.calls[i].ok =>
                              \A j \in CallsOf("detach") : j <= i
                   /\ Cardinality({i \in DOMAIN last.sent :
                                      last.sent[i].error}) = 1

\* C20 witness: the microphone is attached to work and sys-usb; the first
\* detach call, for work, fails although the one for sys-usb would
\* succeed: one failed call, the re-read, nothing else.
C20_Witness ==
    /\ last.op = "toggle"
    /\ last.inp.order = <<"work", "sys-usb">>
    /\ ~last.inp.outcome["work"].ok
    /\ last.inp.outcome["sys-usb"].ok
    /\ last.calls = <<Call("detach", "work", FALSE),
                      Call("resync", NoName, TRUE)>>
    /\ Len(last.sent) = 2

\* The VMs the detach calls of the last toggle went to.
Detached == {last.calls[i].vm : i \in CallsOf("detach")}

\* C21: a toggle of the entry of a VM the device is recorded as attached
\* to makes no attach call and, when no detach call fails, a detach call
\* for every recorded attachment; a toggle of the entry of another VM
\* makes, when no detach call fails (or there is no attachment), exactly
\* one attach call, for that VM, non-persistent, after every detach call.
C21_AttachOnlyOnIntent ==
    last.op = "toggle" =>
        LET S == Range(last.inp.order)
        IN  /\ \A i \in CallsOf("attach") :
                   /\ last.calls[i].vm = last.vm
                   /\ ~last.calls[i].persistent
            /\ FailingPlaces = {} => Detached = S
            /\ last.vm \in S => CallsOf("attach") = {}
            /\ (last.vm \notin S /\ FailingPlaces = {}) =>
                   /\ Cardinality(CallsOf("attach")) = 1
                   /\ \A i \in CallsOf("detach") :
                      \A j \in CallsOf("attach") : i < j

\* C21 witness: the microphone is attached to work and sys-usb and the
\* entry of work is toggled: both are detached, nothing is attached.
C21_Witness ==
    /\ last.op = "toggle"
    /\ last.vm = "work"
    /\ Range(last.inp.order) = {"work", "sys-usb"}
    /\ FailingPlaces = {}
    /\ Detached = {"work", "sys-usb"}
    /\ CallsOf("attach") = {}

\* C21 second case, reached as well: the entry of a VM is toggled while
\* the device has no attachment, and one attach call is made.
C21_WitnessAttach ==
    /\ last.op = "toggle"
    /\ last.inp.order = << >>
    /\ last.calls = <<Call("attach", last.vm, TRUE)>>

\* The keys the present-devices pass of the last loader run inserted.
Inserted ==
    {Str(dev) : dev \in UNION {Range(last.inp.present[d][c].val) :
                                  <<d, c>> \in {x \in DomainSet \X DevTypeSet :
                                      last.inp.present[x[1]][x[2]].ok}}}

\* The devices the attached() listings of the last loader run name.
AttachedListed ==
    UNION {last.inp.attached[d][c].val :
              <<d, c>> \in {x \in DomainSet \X DevTypeSet :
                               last.inp.attached[x[1]][x[2]].ok}}

\* C22: after the loader the registry holds exactly the keys the
\* present-devices pass inserted; a device that only an attached() listing
\* names has no record, and every recorded attachment belongs to a device
\* the first pass inserted and to a VM whose attached() listing names it.
C22_GhostEntriesIgnored ==
    last.op = "initialize_dev_data" =>
        /\ Keys(devices) = Inserted
        /\ \A dev \in AttachedListed :
               Str(dev) \notin Inserted => Str(dev) \notin Keys(devices)
        /\ \A i \in DOMAIN devices : \A vm \in devices[i].attachments :
               /\ devices[i].dev_name \in Inserted
               /\ last.inp.attached[vm][devices[i].devclass].ok
               /\ \E dev \in last.inp.attached[vm][devices[i].devclass].val :
                      Str(dev) = devices[i].dev_name

\* C22 witness: work's attached() listing names the USB device, which no
\* present-devices listing showed; the microphone, which was shown, is
\* recorded as attached to work.
C22_Witness ==
    /\ last.op = "initialize_dev_data"
    /\ last.inp.attached["work"]["usb"].ok
    /\ UsbDev \in last.inp.attached["work"]["usb"].val
    /\ Str(UsbDev) \notin Inserted
    /\ Str(UsbDev) \notin Keys(devices)
    /\ AttachmentsOf(Str(MicDev)) = {"work"}

\* C23 as claimed: a VM name enters an attachment set only while the VM
\* reports running.  The loader runs right after the VM pass, whose
\* is_running() answers are the tracked set; the re-read of a toggle is
\* held against the tracked set as well.
C23_InsertedWhileRunning ==
    /\ last.op = "initialize_dev_data" =>
           \A i \in DOMAIN devices : devices[i].attachments \subseteq vms
    /\ (last.op = "toggle" /\ CallsOf("resync") # {}) =>
           Toggled \subseteq vms

\* The part of C23 that the attach event keeps: the event adds a record or
\* an attachment only when is_running() answered true.
C23_AttachEventAsksRunning ==
    [][(last'.op = "device_attached" /\ last'.inp.run # Ok(TRUE)) =>
           devices' = devices]_vars

\* C24 as claimed: the tracked set holds VM names, each once; a name
\* enters it only in the VM pass of the loader or in the handler of a
\* domain-start event for that VM, and the VM is not an AdminVM and is
\* running at that moment.
C24_TrackedAreRunningVms ==
    [][/\ vms' \subseteq DomainSet
       /\ \A vm \in vms' \ vms :
              /\ Klass(vm) # "AdminVM"
              /\ \/ /\ last'.op = "initialize_vm_data"
                    /\ last'.inp[vm] = Ok(TRUE)
                 \/ /\ last'.op = "vm_start"
                    /\ last'.vm = vm
                    /\ last'.inp.running]_vars

\* C24: the tracked set holds VM names, each once.  The VM pass of the
\* loader adds a VM only if it is not an AdminVM and is_running()
\* answered true for it.  The handler of a domain-start event adds the
\* VM of the event and nothing else, without asking for its class or
\* whether it runs: a VM that is tracked already stays in the set once,
\* and a VM that has stopped before the event is handled is tracked all
\* the same.
C24_TrackedByLoaderOrStart ==
    [][/\ vms' \subseteq DomainSet
       /\ \A vm \in vms' \ vms :
              \/ /\ last'.op = "initialize_vm_data"
                 /\ Klass(vm) # "AdminVM"
                 /\ last'.inp[vm] = Ok(TRUE)
              \/ /\ last'.op = "vm_start"
                 /\ last'.vm = vm
       /\ (last'.op = "vm_start" /\ last.op = "idle") =>
              vms' = vms \cup {last'.vm}]_vars

\* C24 witness: a domain-start event of work, which was not tracked, has
\* been handled after work had stopped; work is tracked beside sys-usb.
C24_Witness ==
    /\ last.op = "vm_start"
    /\ last.vm = "work"
    /\ ~last.inp.tracked
    /\ ~last.inp.running
    /\ vms = {"sys-usb", "work"}

\* C24 second case, reached as well: a duplicated domain-start of work.
C24_WitnessDuplicate ==
    /\ last.op = "vm_start"
    /\ last.vm = "work"
    /\ last.inp.tracked
    /\ vms = {"sys-usb", "work"}

\* The backend VM of the device with key k.
BackendOf(k) == (CHOOSE x \in Universe : Str(x) = k).backend_domain

\* C25: a device key enters the registry only in a step of the loader, of
\* the handler of device-attach or of the handler of device-list-change,
\* and leaves it only in a step of the handler of device-list-change for
\* the device's backend VM; no other step changes the set of keys.
C25_DeviceLifecycle ==
    [][/\ Keys(devices') \ Keys(devices) # {} =>
              last'.op \in {"initialize_dev_data", "device_attached",
                            "device_list_update"}
       /\ \A k \in Keys(devices) \ Keys(devices') :
              /\ last'.op = "device_list_update"
              /\ last'.vm = BackendOf(k)]_vars

\* C25 witness: the shutdown of sys-usb has been handled while a timeout
\* of the notifier was pending, and its device is still in the registry
\* beside the microphone.
C25_Witness ==
    /\ last.op = "vm_shutdown"
    /\ last.vm = "sys-usb"
    /\ last.inp.tracked
    /\ timers # << >>
    /\ Keys(devices) = {Str(UsbDev), Str(MicDev)}

\* C25 second case, reached as well: a device-list-change of sys-usb has
\* removed the USB device and left the microphone of dom0.
C25_WitnessRemoved ==
    /\ last.op = "device_list_update"
    /\ last.vm = "sys-usb"
    /\ last.removed = <<Str(UsbDev)>>
    /\ Str(MicDev) \in Keys(devices)

\* C25 third case, reached as well: an item of the USB device, which a
\* list change has removed since the menu was shown, has been toggled
\* while a timeout was pending, and the key has not come back.
C25_WitnessToggle ==
    /\ last.op = "toggle"
    /\ last.inp.stale
    /\ last.dev = Str(UsbDev)
    /\ timers # << >>
    /\ Str(UsbDev) \notin Keys(devices)

\* The keys that handler run l of device_list_update enumerated: those of
\* all classes when every listing succeeded, none when one raised.
EnumeratedIn(l) ==
    IF \A c \in DevTypeSet : l.inp.listing[c].ok
    THEN UNION {{Str(l.inp.listing[c].val[i]) :
                    i \in DOMAIN l.inp.listing[c].val} : c \in DevTypeSet}
    ELSE {}

\* C26: a device-list-change event of vm leaves the tracked set as it was,
\* and every record whose backend is another VM, as well as every record
\* of vm whose device is enumerated again, is in the registry afterwards
\* exactly as before, attachments included.
C26_ListChangeFrame ==
    [][(last.op = "idle" /\ last'.op = "device_list_update") =>
           /\ vms' = vms
           /\ \A i \in DOMAIN devices :
                  (\/ devices[i].backend_domain # last'.vm
                   \/ devices[i].dev_name \in EnumeratedIn(last')) =>
                      \E j \in DOMAIN devices' : devices'[j] = devices[i]]_vars

\* C26 witness: a list change of sys-usb enumerated the USB device, which
\* is attached to work, and no longer the block device; the microphone of
\* dom0 is attached as well, and a timeout of an earlier list change is
\* pending.
C26_Witness ==
    /\ last.op = "device_list_update"
    /\ last.vm = "sys-usb"
    /\ EnumeratedIn(last) = {Str(UsbDev)}
    /\ last.removed = <<Str(BlockDev)>>
    /\ AttachmentsOf(Str(UsbDev)) = {"work"}
    /\ AttachmentsOf(Str(MicDev)) = {"work"}
    /\ \E i \in DOMAIN timers : timers[i].left < WindowTicks

\* How often buffer buf holds device dev_name, over all its VMs.
Occurrences(buf, dev_name) ==
    Cardinality(UNION {{<<vm, j>> : j \in {k \in DOMAIN buf[vm] :
                                              buf[vm][k].dev_name = dev_name}} :
                       vm \in DOMAIN buf})

\* The timeouts among tmrs of direction dir for device dev_name.
TimeoutsOf(tmrs, dir, dev_name) ==
    {i \in DOMAIN tmrs : tmrs[i].dir = dir /\ tmrs[i].dev = dev_name}

\* The time left of the timeout among tmrs of direction dir for dev_name.
LeftOf(tmrs, dir, dev_name) ==
    tmrs[CHOOSE i \in TimeoutsOf(tmrs, dir, dev_name) : TRUE].left

\* C27: in each direction a device is buffered at most once, with one
\* timeout; it enters a buffer in a list change, with a full window left;
\* while it stays its time left goes down by one with every tick and is
\* changed by nothing else, an insertion attempt included; it leaves the
\* buffer when its time is up, by its own timeout; a timeout of one
\* direction leaves the buffer of the other as it was.
C27_EvictedAfterOneWindow ==
    [][/\ \A dir \in {"added", "removed"} : \A dev \in Universe :
              LET n == Str(dev)
                  old == Occurrences(IF dir = "added" THEN devs_added
                                     ELSE devs_removed, n)
                  new == Occurrences(IF dir = "added" THEN devs_added'
                                     ELSE devs_removed', n)
              IN  /\ new <= 1
                  /\ Cardinality(TimeoutsOf(timers', dir, n)) = new
                  /\ new = 1 =>
                         LeftOf(timers', dir, n) \in 0..WindowTicks
                  /\ (old = 0 /\ new = 1) =>
                         /\ last'.op = "device_list_update"
                         /\ LeftOf(timers', dir, n) = WindowTicks
                  /\ (old = 1 /\ new = 1) =>
                         LeftOf(timers', dir, n) =
                             IF last' = last /\ timers' # timers
                             THEN LeftOf(timers, dir, n) - 1
                             ELSE LeftOf(timers, dir, n)
                  /\ (old = 1 /\ new = 0) =>
                         /\ LeftOf(timers, dir, n) = 0
                         /\ last'.op = "_remove_notify_" \o dir
                         /\ last'.dev = n
       /\ (last.op = "idle" /\ last'.op = "_remove_notify_added") =>
              devs_removed' = devs_removed
       /\ (last.op = "idle" /\ last'.op = "_remove_notify_removed") =>
              devs_added' = devs_added]_vars

\* C27 witness: the USB device entered the added-buffer, was removed and
\* enumerated anew within the window; its added timeout has fired on time
\* and it is still in the removed-buffer, which it entered later.
C27_Witness ==
    /\ last.op = "_remove_notify_added"
    /\ last.dev = Str(UsbDev)
    /\ Str(UsbDev) \in Keys(devices)
    /\ Occurrences(devs_added, Str(UsbDev)) = 0
    /\ Occurrences(devs_removed, Str(UsbDev)) = 1
    /\ LeftOf(timers, "removed", Str(UsbDev)) > 0

\* C27 second case, reached as well: the device is in both buffers at
\* once, with different times left.
C27_WitnessBoth ==
    /\ Occurrences(devs_added, Str(UsbDev)) = 1
    /\ Occurrences(devs_removed, Str(UsbDev)) = 1
    /\ LeftOf(timers, "added", Str(UsbDev)) <
           LeftOf(timers, "removed", Str(UsbDev))

\* C28 as claimed: every call of refresh_icon returns without an error
\* and leaves in the warned set only VMs that are problematic now, also
\* when a warned VM has ceased to be problematic while another still is;
\* a VM that was warned and is still problematic stays warned and is not
\* notified again.
C28_RefreshKeepsWarnedCurrent ==
    refreshed.op = "refresh_icon" =>
        /\ refreshed.raised = "none"
        /\ vms_warned \subseteq Range(refreshed.inp.vm_warning)
        /\ \A vm \in Range(refreshed.inp.order) :
               vm \in Range(refreshed.inp.vm_warning) =>
                   /\ vm \in vms_warned
                   /\ \A i \in DOMAIN refreshed.sent :
                          refreshed.sent[i].vm # vm

\* The pool of the last refresh has metadata at or above 95 %.
MetadataUrgent ==
    /\ refreshed.inp.pool.size # 0
    /\ refreshed.inp.pool.metadata_size # 0
    /\ 100 * refreshed.inp.pool.metadata_usage >=
           95 * refreshed.inp.pool.metadata_size

\* What the code does in place of C28: with the pool's metadata nearly
\* full the call raises AttributeError and changes nothing; otherwise it
\* raises RuntimeError exactly when some VM is problematic and a warned
\* VM is not; the warned set then has lost the first such VM of the
\* iteration alone and no VM is notified; in every other case the claim's
\* statement holds.
C28_RaisesOnStaleWarned ==
    refreshed.op = "refresh_icon" =>
        LET current == Range(refreshed.inp.vm_warning)
            before == Range(refreshed.inp.order)
            stale == {i \in DOMAIN refreshed.inp.order :
                         refreshed.inp.order[i] \notin current}
        IN  IF MetadataUrgent
            THEN /\ refreshed.raised = "AttributeError"
                 /\ vms_warned = before
                 /\ pool_warned = refreshed.inp.pool_warned
                 /\ refreshed.sent = << >>
            ELSE IF current # {} /\ stale # {}
            THEN /\ refreshed.raised = "RuntimeError"
                 /\ vms_warned =
                        before \ {refreshed.inp.order[
                                      CHOOSE i \in stale :
                                          \A j \in stale : i <= j]}
                 /\ \A i \in DOMAIN refreshed.sent :
                        refreshed.sent[i].vm = NoName
            ELSE /\ refreshed.raised = "none"
                 /\ vms_warned \subseteq current
                 /\ before \cap current \subseteq vms_warned

\* The case of C28 is reached: two warned VMs have ceased to be
\* problematic while a third still is; the call raised and one of the two
\* is still warned.
C28_Witness ==
    /\ refreshed.op = "refresh_icon"
    /\ Range(refreshed.inp.order) = {"dom0", "sys-usb", "work"}
    /\ refreshed.inp.vm_warning = <<"work">>
    /\ refreshed.raised = "RuntimeError"
    /\ Cardinality(vms_warned) = 2

====
